---- MODULE Spec2Model ----
(***************************************************************************)
(* A model of the WebVoyager action projection                             *)
(* (agent_system/environments/env_package/webvoyager/projection.py).       *)
(*                                                                         *)
(* A Python str is a sequence of Unicode code points, so a string is a     *)
(* sequence of naturals here (<<67, 108>> is "Cl"); the regular            *)
(* expressions of the source are matched code point by code point.         *)
(***************************************************************************)
EXTENDS Integers, Sequences, FiniteSets, TLC

VARIABLES actions, normalized_actions, valids, pc,
          data, lists, keys, batch_size, ret, first_keys,
          menv, wenv, prompt, tagged, wrapped, engine, run

vars == <<actions, normalized_actions, valids, pc,
          data, lists, keys, batch_size, ret, first_keys,
          menv, wenv, prompt, tagged, wrapped, engine, run>>

----------------------------------------------------------------------------
(* Bounds of the model.                                                    *)

\* The longest batch handed to webvoyager_projection.
MaxBatch == 2

\* The most instances a store is reset to.
MaxInstances == 2

\* The most records a log is filled to.
MaxSteps == 3

\* The largest history_length of a fetch and max_images of a message history.
MaxHistory == 2

MaxImages == 2

----------------------------------------------------------------------------
(* String literals of the source, as code points.                          *)

S_action_open == <<60, 97, 99, 116, 105, 111, 110, 62>>            \* "<action>"
S_action_close == <<60, 47, 97, 99, 116, 105, 111, 110, 62>>       \* "</action>"
S_think_open == <<60, 116, 104, 105, 110, 107, 62>>                \* "<think>"
S_think_close == <<60, 47, 116, 104, 105, 110, 107, 62>>           \* "</think>"
S_click == <<99, 108, 105, 99, 107>>                               \* "click"
S_type == <<116, 121, 112, 101>>                                   \* "type"
S_scroll == <<115, 99, 114, 111, 108, 108>>                        \* "scroll"
S_wait == <<119, 97, 105, 116>>                                    \* "wait"
S_goback == <<103, 111, 98, 97, 99, 107>>                          \* "goback"
S_google == <<103, 111, 111, 103, 108, 101>>                       \* "google"
S_answer == <<97, 110, 115, 119, 101, 114>>                        \* "answer"
S_window == <<119, 105, 110, 100, 111, 119>>                       \* "window"
S_up == <<117, 112>>                                               \* "up"
S_down == <<100, 111, 119, 110>>                                   \* "down"
S_fence == <<96, 96, 96>>                                          \* "```"
S_None == <<78, 111, 110, 101>>                                    \* "None"
S_null == <<110, 117, 108, 108>>                                   \* "null"
S_action == <<97, 99, 116, 105, 111, 110>>                         \* "action"
S_action_key == <<97, 99, 116, 105, 111, 110, 95, 107, 101, 121>>  \* "action_key"
S_idx == <<105, 100, 120>>                                         \* "idx"
S_number == <<110, 117, 109, 98, 101, 114>>                        \* "number"
S_element == <<101, 108, 101, 109, 101, 110, 116>>                 \* "element"
S_direction == <<100, 105, 114, 101, 99, 116, 105, 111, 110>>      \* "direction"
S_content == <<99, 111, 110, 116, 101, 110, 116>>                  \* "content"
S_answer_content == <<97, 110, 115, 119, 101, 114, 95, 99, 111, 110, 116, 101, 110, 116>>  \* "answer_content"

ALLOWED_ACTIONS == {S_click, S_type, S_scroll, S_wait, S_goback, S_google, S_answer}

----------------------------------------------------------------------------
(* Python str and re primitives the source uses.                           *)

\* str.isspace / the class \s of re on str.
IsSpace(c) ==
    \/ c \in 9..13
    \/ c \in 28..32
    \/ c \in {133, 160, 5760, 8232, 8233, 8239, 8287, 12288}
    \/ c \in 8192..8202

\* The class \d of re, over the ASCII digits.
IsDigit(c) == c \in 48..57

\* str.lower / re.IGNORECASE folding, over the ASCII letters.
LowerCh(c) == IF c \in 65..90 THEN c + 32 ELSE c

\* F applied to the value of e: e is evaluated once and F gets the value.
Let(e, F(_)) == CHOOSE r \in {F(x) : x \in {e}} : TRUE

Lower(s) == SubSeq([k \in 1..Len(s) |-> LowerCh(s[k])], 1, Len(s))

SetMin(S) == CHOOSE x \in S : \A y \in S : x <= y

SetMax(S) == 0 - SetMin({0 - x : x \in S})

\* s[i:j] of Python with 1-based inclusive ends; empty when j < i.
Slice(s, i, j) == IF j < i THEN <<>> ELSE SubSeq(s, i, j)

\* str.strip()
Strip(s) ==
    LET keep == {k \in 1..Len(s) : ~IsSpace(s[k])}
    IN  IF keep = {} THEN <<>> ELSE Slice(s, SetMin(keep), SetMax(keep))

\* A literal of a pattern compiled with re.IGNORECASE matches s at position i;
\* lit is written in lower case.
LitAt(s, i, lit) ==
    /\ i >= 1
    /\ i + Len(lit) - 1 <= Len(s)
    /\ \A k \in 1..Len(lit) : LowerCh(s[i + k - 1]) = lit[k]

\* The same without case folding (str.startswith, the "in" of str).
ExactAt(s, i, lit) ==
    /\ i >= 1
    /\ i + Len(lit) - 1 <= Len(s)
    /\ \A k \in 1..Len(lit) : s[i + k - 1] = lit[k]

Contains(s, lit) == \E i \in 1..Len(s) : ExactAt(s, i, lit)

\* Greedy \s* from position i: the first position at or after i that holds no
\* white space (Len(s) + 1 when there is none).
SkipWs(s, i) == SetMin({j \in i..(Len(s) + 1) : j = Len(s) + 1 \/ ~IsSpace(s[j])})

\* Greedy \d* from position i.
SkipDigits(s, i) == SetMin({j \in i..(Len(s) + 1) : j = Len(s) + 1 \/ ~IsDigit(s[j])})

\* s holds the one code point c at position i.
ChAt(s, i, c) == i >= 1 /\ i <= Len(s) /\ s[i] = c

\* "$" without re.MULTILINE at position i: the end of the string, or just
\* before a newline that ends the string.
AtEnd(s, i) == i = Len(s) + 1 \/ (i = Len(s) /\ s[i] = 10)

\* The digits an int() of CPython converts from a str before it raises
\* ValueError (sys.int_info.default_max_str_digits).
default_max_str_digits == 4300

\* The value of the first n digits of a run of decimal digits, and of the run.
RECURSIVE DigitsValUpTo(_, _)
DigitsValUpTo(d, n) ==
    IF n = 0 THEN 0 ELSE 10 * DigitsValUpTo(d, n - 1) + (d[n] - 48)

DigitsVal(d) == DigitsValUpTo(d, Len(d))

\* str() of a non-negative int, then of any int.
RECURSIVE NatToStr(_)
NatToStr(n) ==
    IF n < 10 THEN <<48 + n>> ELSE NatToStr(n \div 10) \o <<48 + (n % 10)>>

IntToStr(n) == IF n < 0 THEN <<45>> \o NatToStr(0 - n) ELSE NatToStr(n)

\* re.search(open [\s\S]*? close, text, IGNORECASE): the leftmost opening tag
\* that a closing tag follows, and the first closing tag after it.
TagSearch(text, open, close) ==
    LET opens == {i \in 1..Len(text) : LitAt(text, i, open)}
        closes == {j \in 1..Len(text) : LitAt(text, j, close)}
        starts == {i \in opens : \E j \in closes : j >= i + Len(open)}
    IN  IF starts = {} THEN [found |-> FALSE, group |-> <<>>]
        ELSE LET i0 == SetMin(starts)
                 j0 == SetMin({j \in closes : j >= i0 + Len(open)})
             IN  [found |-> TRUE, group |-> Slice(text, i0 + Len(open), j0 - 1)]

----------------------------------------------------------------------------
(* projection.py                                                           *)

\* The outcome of a call: Python's None, a value, or an exception that
\* leaves the call.
None == [some |-> FALSE, raised |-> FALSE]

Some(v) == [some |-> TRUE, raised |-> FALSE, val |-> v]

Raise == [some |-> FALSE, raised |-> TRUE]

\* int() on the text of a \d+ group.  CPython (3.10.7 and later, 3.11) raises
\* ValueError when the text has more digits than sys.int_info's
\* default_max_str_digits; no other text of digits makes int() fail.
IntOfDigits(d) ==
    IF Len(d) > default_max_str_digits THEN Raise ELSE Some(DigitsVal(d))

extract_action_block(text) ==
    Let(TagSearch(text, S_action_open, S_action_close),
        LAMBDA m : IF m.found THEN Strip(m.group) ELSE <<>>)

has_think_block(text) == TagSearch(text, S_think_open, S_think_close).found

contains_chinese(text) == \E k \in 1..Len(text) : text[k] \in 19968..40959

\* The lazy group (.*?) under re.DOTALL followed by "\]$", from position g.
LazyToCloseAtEnd(s, g) ==
    LET ks == {k \in g..Len(s) : s[k] = 93 /\ AtEnd(s, k + 1)}
    IN  IF ks = {} THEN None ELSE Some(Slice(s, g, SetMin(ks) - 1))

\* ^click\s*\[\s*(\d+)\s*\]$
MatchClick(s) ==
    LET b == SkipWs(s, Len(S_click) + 1)
        c == SkipWs(s, b + 1)
        d == SkipDigits(s, c)
        e == SkipWs(s, d)
    IN  IF /\ LitAt(s, 1, S_click)
           /\ ChAt(s, b, 91)
           /\ d > c
           /\ ChAt(s, e, 93)
           /\ AtEnd(s, e + 1)
        THEN Some([element |-> Slice(s, c, d - 1)])
        ELSE None

\* ^type\s*\[\s*(\d+)\s*\]\s*;\s*\[(.*?)\]$
MatchType(s) ==
    LET b == SkipWs(s, Len(S_type) + 1)
        c == SkipWs(s, b + 1)
        d == SkipDigits(s, c)
        e == SkipWs(s, d)
        f == SkipWs(s, e + 1)
        g == SkipWs(s, f + 1)
        body == LazyToCloseAtEnd(s, g + 1)
    IN  IF /\ LitAt(s, 1, S_type)
           /\ ChAt(s, b, 91)
           /\ d > c
           /\ ChAt(s, e, 93)
           /\ ChAt(s, f, 59)
           /\ ChAt(s, g, 91)
           /\ body.some
        THEN Some([element |-> Slice(s, c, d - 1), text |-> body.val])
        ELSE None

\* ^scroll\s*\[\s*(window|\d+)\s*\]\s*;\s*\[(up|down)\]$
MatchScroll(s) ==
    LET b == SkipWs(s, Len(S_scroll) + 1)
        c == SkipWs(s, b + 1)
        isWindow == LitAt(s, c, S_window)
        d == IF isWindow THEN c + Len(S_window) ELSE SkipDigits(s, c)
        e == SkipWs(s, d)
        f == SkipWs(s, e + 1)
        g == SkipWs(s, f + 1)
        isUp == LitAt(s, g + 1, S_up)
        isDown == LitAt(s, g + 1, S_down)
        h == g + 1 + (IF isUp THEN Len(S_up) ELSE Len(S_down))
    IN  IF /\ LitAt(s, 1, S_scroll)
           /\ ChAt(s, b, 91)
           /\ d > c
           /\ ChAt(s, e, 93)
           /\ ChAt(s, f, 59)
           /\ ChAt(s, g, 91)
           /\ isUp \/ isDown
           /\ ChAt(s, h, 93)
           /\ AtEnd(s, h + 1)
        THEN Some([target |-> Slice(s, c, d - 1), direction |-> Slice(s, g + 1, h - 1)])
        ELSE None

\* The answer pattern compiled without re.IGNORECASE.
MatchAnswerCaseSensitive(s) ==
    LET b == SkipWs(s, Len(S_answer) + 1)
        c == SkipWs(s, b + 1)
        body == LazyToCloseAtEnd(s, c + 1)
    IN  IF /\ ExactAt(s, 1, S_answer)
           /\ ChAt(s, b, 59)
           /\ ChAt(s, c, 91)
           /\ body.some
        THEN Some([text |-> body.val])
        ELSE None

\* ^answer\s*;\s*\[(.*?)\]$
MatchAnswer(s) ==
    LET b == SkipWs(s, Len(S_answer) + 1)
        c == SkipWs(s, b + 1)
        body == LazyToCloseAtEnd(s, c + 1)
    IN  IF /\ LitAt(s, 1, S_answer)
           /\ ChAt(s, b, 59)
           /\ ChAt(s, c, 91)
           /\ body.some
        THEN Some([text |-> body.val])
        ELSE None

\* re.fullmatch(word, s, re.IGNORECASE)
FullMatch(s, word) == Len(s) = Len(word) /\ LitAt(s, 1, word)

fallback_parse(s) ==
    Let(Strip(s), LAMBDA lower :
        LET mClick == MatchClick(lower)
            mType == MatchType(lower)
            mScroll == MatchScroll(lower)
            mAnswer == MatchAnswer(lower)
            nClick == IntOfDigits(mClick.val.element)
            nType == IntOfDigits(mType.val.element)
            nScroll == IF Lower(mScroll.val.target) = S_window
                       THEN Some(-1) ELSE IntOfDigits(mScroll.val.target)
        IN  IF mClick.some
            THEN (IF nClick.raised THEN Raise
                  ELSE Some([action_key |-> S_click, element |-> nClick.val]))
            ELSE IF mType.some
            THEN (IF nType.raised THEN Raise
                  ELSE Some([action_key |-> S_type, element |-> nType.val,
                             content |-> Strip(mType.val.text)]))
            ELSE IF mScroll.some
            THEN (IF nScroll.raised THEN Raise
                  ELSE Some([action_key |-> S_scroll, element |-> nScroll.val,
                             content |-> Lower(mScroll.val.direction)]))
            ELSE IF FullMatch(lower, S_wait) THEN Some([action_key |-> S_wait])
            ELSE IF FullMatch(lower, S_goback) THEN Some([action_key |-> S_goback])
            ELSE IF FullMatch(lower, S_google) THEN Some([action_key |-> S_google])
            ELSE IF mAnswer.some
            THEN Some([action_key |-> S_answer,
                       answer_content |-> Strip(mAnswer.val.text)])
            ELSE None)

----------------------------------------------------------------------------
(* json.loads, on the JSON texts the inputs below draw: a scalar (string    *)
(* without escapes, integer, null) or an object whose members are such      *)
(* scalars.  A value is a record [t, s, n, items]; a dict keeps its members *)
(* as a sequence of <<key, value>> in the order of the text.                *)

JStr(s) == [t |-> "str", s |-> s, n |-> 0, items |-> <<>>]

JInt(n) == [t |-> "int", s |-> <<>>, n |-> n, items |-> <<>>]

JNull == [t |-> "null", s |-> <<>>, n |-> 0, items |-> <<>>]

JDict(items) == [t |-> "dict", s |-> <<>>, n |-> 0, items |-> items]

JFail == [ok |-> FALSE, val |-> JNull, next |-> 0]

JOk(v, next) == [ok |-> TRUE, val |-> v, next |-> next]

\* The white space of JSON: space, tab, line feed, carriage return.
SkipJsonWs(s, i) ==
    SetMin({j \in i..(Len(s) + 1) : j = Len(s) + 1 \/ s[j] \notin {32, 9, 10, 13}})

\* A string without escapes or control characters, from its opening quote at i.
JsonString(s, i) ==
    LET quotes == {j \in (i + 1)..Len(s) : s[j] = 34}
    IN  IF ~ChAt(s, i, 34) \/ quotes = {} THEN JFail
        ELSE LET j == SetMin(quotes)
             IN  IF \E k \in (i + 1)..(j - 1) : s[k] < 32 \/ s[k] = 92
                 THEN JFail
                 ELSE JOk(JStr(Slice(s, i + 1, j - 1)), j + 1)

\* -?(0|[1-9]\d*) at i; a fraction or an exponent after it is not drawn.  The
\* int() of the digits may raise, and json.loads fails with it.
JsonInt(s, i) ==
    LET k == IF ChAt(s, i, 45) THEN i + 1 ELSE i
        d == IF ChAt(s, k, 48) THEN k + 1 ELSE SkipDigits(s, k)
        v == IntOfDigits(Slice(s, k, d - 1))
    IN  IF k > Len(s) \/ d = k \/ (d <= Len(s) /\ s[d] \in {46, 69, 101}) THEN JFail
        ELSE IF v.raised THEN JFail
        ELSE JOk(JInt(IF k > i THEN 0 - v.val ELSE v.val), d)

JsonScalar(s, i) ==
    IF ChAt(s, i, 34) THEN JsonString(s, i)
    ELSE IF ExactAt(s, i, S_null) THEN JOk(JNull, i + Len(S_null))
    ELSE IF i <= Len(s) /\ (s[i] = 45 \/ IsDigit(s[i])) THEN JsonInt(s, i)
    ELSE JFail

\* One member of an object from its key at i: "key" : scalar, then a comma
\* (more members follow) or the closing brace.
JsonMember(s, i) ==
    Let(JsonString(s, i), LAMBDA key :
        IF ~key.ok \/ ~ChAt(s, SkipJsonWs(s, key.next), 58) THEN [ok |-> FALSE]
        ELSE
        Let(JsonScalar(s, SkipJsonWs(s, SkipJsonWs(s, key.next) + 1)), LAMBDA val :
            IF ~val.ok THEN [ok |-> FALSE]
            ELSE
            Let(SkipJsonWs(s, val.next), LAMBDA e :
                IF ChAt(s, e, 44)
                THEN [ok |-> TRUE, item |-> <<key.val.s, val.val>>, more |-> TRUE,
                      next |-> SkipJsonWs(s, e + 1)]
                ELSE IF ChAt(s, e, 125)
                THEN [ok |-> TRUE, item |-> <<key.val.s, val.val>>, more |-> FALSE,
                      next |-> e + 1]
                ELSE [ok |-> FALSE])))

\* The members of an object from the key at i, up to the closing brace.
RECURSIVE JsonMembers(_, _, _)
JsonMembersAfter(s, m, acc) ==
    IF ~m.ok THEN JFail
    ELSE IF m.more THEN JsonMembers(s, m.next, Append(acc, m.item))
    ELSE JOk(JDict(Append(acc, m.item)), m.next)

JsonMembers(s, i, acc) ==
    Let(JsonMember(s, i), LAMBDA m : JsonMembersAfter(s, m, acc))

JsonObject(s, i) ==
    Let(SkipJsonWs(s, i + 1), LAMBDA j :
        IF ChAt(s, j, 125) THEN JOk(JDict(<<>>), j + 1) ELSE JsonMembers(s, j, <<>>))

\* json.loads(s): None stands for the exception it raises.
json_loads(s) ==
    Let(SkipJsonWs(s, 1), LAMBDA i :
        Let(IF ChAt(s, i, 123) THEN JsonObject(s, i) ELSE JsonScalar(s, i), LAMBDA r :
            IF r.ok /\ SkipJsonWs(s, r.next) = Len(s) + 1 THEN Some(r.val) ELSE None))

\* s.split("```", 2) of a string that starts with the fence: the text between
\* the first two fences and the text after the second; None when there is
\* one fence only (len(parts) < 3).
SplitFence(s) ==
    LET second == {i \in (Len(S_fence) + 1)..Len(s) : ExactAt(s, i, S_fence)}
    IN  IF second = {} THEN None
        ELSE LET p == SetMin(second)
             IN  Some([part1 |-> Slice(s, Len(S_fence) + 1, p - 1),
                       part2 |-> Slice(s, p + Len(S_fence), Len(s))])

\* s.replace("'", '"')
ReplaceQuotes(s) ==
    SubSeq([k \in 1..Len(s) |-> IF s[k] = 39 THEN 34 ELSE s[k]], 1, Len(s))

\* The text of the first fenced block when the stripped text starts with a
\* fence: the part between the first two fences if it holds a "{", the part
\* after the second fence otherwise; stripped again.
Unfence(stripped) ==
    IF ExactAt(stripped, 1, S_fence)
    THEN Let(SplitFence(stripped), LAMBDA parts :
             Strip(IF parts.some
                   THEN (IF Contains(parts.val.part1, <<123>>)
                         THEN parts.val.part1 ELSE parts.val.part2)
                   ELSE stripped))
    ELSE stripped

\* s_clean[: s_clean.rfind("}") + 1] when s_clean holds a "}".
CutAtLastBrace(s) ==
    Let({k \in 1..Len(s) : s[k] = 125}, LAMBDA braces :
        IF braces = {} THEN s ELSE Slice(s, 1, SetMax(braces)))

\* json.loads may also give None (the text "null"): to the one caller that
\* is no object, as a failure is.
ObjectOrNone(loaded) == IF loaded.some /\ loaded.val.t # "null" THEN loaded ELSE None

parse_json_like(s) ==
    Let(CutAtLastBrace(Unfence(Strip(s))), LAMBDA s_clean :
        Let(json_loads(s_clean), LAMBDA first :
            IF first.some THEN ObjectOrNone(first)
            ELSE IF Contains(s_clean, <<39>>) /\ ~Contains(s_clean, <<34>>)
            THEN ObjectOrNone(json_loads(ReplaceQuotes(s_clean)))
            ELSE None))

----------------------------------------------------------------------------
(* _normalize_action                                                        *)

\* A dict is the sequence of its <<key, value>> items, in insertion order,
\* no key twice.
DictHas(d, k) == \E j \in 1..Len(d) : d[j][1] = k

\* obj_norm.get(k, default)
DictGet(d, k, default) ==
    IF DictHas(d, k) THEN d[CHOOSE j \in 1..Len(d) : d[j][1] = k][2] ELSE default

\* d[k] = v
DictSet(d, k, v) ==
    Let(d, LAMBDA dv :
        IF DictHas(dv, k)
        THEN SubSeq([j \in 1..Len(dv) |-> IF dv[j][1] = k THEN <<k, v>> ELSE dv[j]],
                    1, Len(dv))
        ELSE Append(dv, <<k, v>>))

\* {k.lower(): v for k, v in obj.items()}, over the first n items: a later
\* member overwrites an earlier one with the same lower-cased key.
RECURSIVE LowerKeys(_, _)
LowerKeys(items, n) ==
    IF n = 0 THEN <<>>
    ELSE DictSet(LowerKeys(items, n - 1), Lower(items[n][1]), items[n][2])

\* d without its item for k (the dict after d.pop(k)).
DictPop(d, k) == SelectSeq(d, LAMBDA item : item[1] # k)

\* if from in obj_norm and to not in obj_norm: obj_norm[to] = obj_norm.pop(from)
Alias(d, from, to) ==
    Let(d, LAMBDA dv :
        IF DictHas(dv, from) /\ ~DictHas(dv, to)
        THEN Append(DictPop(dv, from), <<to, DictGet(dv, from, JNull)>>)
        ELSE dv)

\* str(v)
PyStr(v) ==
    IF v.t = "str" THEN v.s
    ELSE IF v.t = "int" THEN IntToStr(v.n)
    ELSE S_None

\* The digits of an int() literal: digits, single underscores between them.
DigitGroups(s) ==
    /\ Len(s) > 0
    /\ IsDigit(s[1]) /\ IsDigit(s[Len(s)])
    /\ \A k \in 1..Len(s) : IsDigit(s[k]) \/ s[k] = 95
    /\ \A k \in 1..(Len(s) - 1) : ~(s[k] = 95 /\ s[k + 1] = 95)

\* int(v): None stands for the ValueError, TypeError or KeyError the source
\* catches.  A str is stripped, then an optional sign, then the digits.
PyInt(v) ==
    IF ~v.some THEN None
    ELSE IF v.val.t = "int" THEN Some(v.val.n)
    ELSE IF v.val.t = "str"
    THEN LET t == Strip(v.val.s)
             signed == Len(t) > 0 /\ t[1] \in {43, 45}
             body == IF signed THEN Tail(t) ELSE t
             mag == IntOfDigits(SelectSeq(body, IsDigit))
         IN  IF DigitGroups(body) /\ mag.some
             THEN Some(IF signed /\ t[1] = 45 THEN 0 - mag.val ELSE mag.val)
             ELSE None
    ELSE None

\* ValidDirection with the check of the direction left out.
ValidDirectionAny(direction) == TRUE

\* direction in {"up", "down"}
ValidDirection(direction) == direction \in {S_up, S_down}

\* obj_norm[k] where the lookup may raise KeyError, or obj_norm.get(k).
Lookup(d, k) == IF DictHas(d, k) THEN Some(DictGet(d, k, JNull)) ELSE None

\* The key normalization of _normalize_action.
NormalizeKeys(items) ==
    Alias(Alias(Alias(Alias(Alias(LowerKeys(items, Len(items)),
        S_action, S_action_key),
        S_idx, S_element),
        S_number, S_element),
        S_direction, S_content),
        S_answer, S_answer_content)

normalize_action(obj) ==
    IF obj.t # "dict" THEN None
    ELSE
    Let(NormalizeKeys(obj.items), LAMBDA obj_norm :
    Let(Lower(PyStr(DictGet(obj_norm, S_action_key, JStr(<<>>)))), LAMBDA action_key :
        LET element == PyInt(Lookup(obj_norm, S_element))
            content == PyStr(DictGet(obj_norm, S_content, JStr(<<>>)))
            elem_raw == Lookup(obj_norm, S_element)
            elem == IF elem_raw.some /\ elem_raw.val.t = "str"
                       /\ Lower(elem_raw.val.s) = S_window
                    THEN Some(-1) ELSE PyInt(elem_raw)
            direction == Lower(content)
            ans == Strip(PyStr(DictGet(obj_norm, S_answer_content, JStr(<<>>))))
        IN  IF action_key \notin ALLOWED_ACTIONS THEN None
            ELSE IF action_key = S_click
            THEN (IF element.some
                  THEN Some([action_key |-> S_click, element |-> element.val])
                  ELSE None)
            ELSE IF action_key = S_type
            THEN (IF element.some
                  THEN Some([action_key |-> S_type, element |-> element.val,
                             content |-> content])
                  ELSE None)
            ELSE IF action_key = S_scroll
            THEN (IF elem.some /\ ValidDirection(direction)
                  THEN Some([action_key |-> S_scroll, element |-> elem.val,
                             content |-> direction])
                  ELSE None)
            ELSE IF action_key \in {S_wait, S_goback, S_google}
            THEN Some([action_key |-> action_key])
            ELSE IF action_key = S_answer
            THEN (IF ans # <<>>
                  THEN Some([action_key |-> S_answer, answer_content |-> ans])
                  ELSE None)
            ELSE None))

----------------------------------------------------------------------------
(* webvoyager_projection                                                    *)

WaitAction == [action_key |-> S_wait]

\* The payload parsed: the JSON object first, the concise formats when that
\* gives nothing; None when neither does.
ParseAction(payload) ==
    Let(parse_json_like(payload), LAMBDA obj :
        Let(IF obj.some THEN normalize_action(obj.val) ELSE None, LAMBDA fromJson :
            IF fromJson.some THEN fromJson ELSE fallback_parse(payload)))

\* valids[i] when only the reasoning block is looked for.
HeuristicsThinkOnly(original, vs, i) ==
    IF has_think_block(original) THEN vs ELSE [vs EXCEPT ![i] = 0]

\* valids[i] after the two heuristics on the original text.
Heuristics(original, vs, i) ==
    LET v2 == IF has_think_block(original) THEN vs ELSE [vs EXCEPT ![i] = 0]
    IN  IF contains_chinese(original) THEN [v2 EXCEPT ![i] = 0] ELSE v2

\* What the loop writes for position i once the payload is parsed.
StepResult(st, i, original, payload, norm) ==
    LET v1 == IF norm.some THEN st.valids ELSE [st.valids EXCEPT ![i] = 0]
    IN  IF payload = <<>>
        THEN [normalized_actions |-> Append(st.normalized_actions, WaitAction),
              valids |-> [st.valids EXCEPT ![i] = 0],
              raised |-> FALSE]
        ELSE IF norm.raised
        THEN [st EXCEPT !.raised = TRUE]
        ELSE [normalized_actions |->
                  Append(st.normalized_actions, IF norm.some THEN norm.val ELSE WaitAction),
              valids |-> Heuristics(original, v1, i),
              raised |-> FALSE]

\* ProjStep with valids[i] left alone when the payload does not parse.
ProjStepKeepValid(acts, i, st) ==
    Let(st, LAMBDA before :
    Let(extract_action_block(acts[i]), LAMBDA payload :
    Let(ParseAction(payload), LAMBDA norm :
        IF payload # <<>> /\ ~norm.some /\ ~norm.raised
        THEN [normalized_actions |-> Append(before.normalized_actions, WaitAction),
              valids |-> Heuristics(acts[i], before.valids, i),
              raised |-> FALSE]
        ELSE StepResult(before, i, acts[i], payload, norm))))

\* One pass of the loop body for position i (1-based), on the two lists the
\* loop carries: normalized_actions grows by append, valids is written at i.
\* An exception of the parse leaves the loop and the function.
ProjStep(acts, i, st) ==
    Let(st, LAMBDA before :
    Let(extract_action_block(acts[i]), LAMBDA payload :
    Let(ParseAction(payload), LAMBDA norm :
        StepResult(before, i, acts[i], payload, norm))))

RECURSIVE ProjLoop(_, _, _)
ProjLoop(acts, i, st) ==
    IF i > Len(acts) \/ st.raised THEN st
    ELSE ProjLoop(acts, i + 1, ProjStep(acts, i, st))

webvoyager_projection(acts) ==
    ProjLoop(acts, 1, [normalized_actions |-> <<>>,
                       valids |-> SubSeq([k \in 1..Len(acts) |-> 1], 1, Len(acts)),
                       raised |-> FALSE])

----------------------------------------------------------------------------
(* The raw model outputs drawn: a reasoning part, then an action payload in *)
(* one of the wrappings.                                                    *)

\* Click [8]
P_Click8 ==
    <<67, 108, 105, 99, 107, 32, 91, 56, 93>>

\* Click [1]
P_Click1 ==
    <<67, 108, 105, 99, 107, 32, 91, 49, 93>>

\* Click [2]
P_Click2 ==
    <<67, 108, 105, 99, 107, 32, 91, 50, 93>>

\* click[ 12 ]
P_ClickSpaced ==
    <<99, 108, 105, 99, 107, 91, 32, 49, 50, 32, 93>>

\* CLICK [0]
P_ClickUpper ==
    <<67, 76, 73, 67, 75, 32, 91, 48, 93>>

\* Click [-1]
P_ClickNegative ==
    <<67, 108, 105, 99, 107, 32, 91, 45, 49, 93>>

\* Click [x]
P_ClickWord ==
    <<67, 108, 105, 99, 107, 32, 91, 120, 93>>

\* Click [8] now
P_ClickTrailing ==
    <<67, 108, 105, 99, 107, 32, 91, 56, 93, 32, 110, 111, 119>>

\* Type [22] [Boston]
P_TypeBoston ==
    <<84, 121, 112, 101, 32, 91, 50, 50, 93, 32, 91, 66, 111, 115, 116, 111, 110, 93>>

\* Type [22]; [Boston]
P_TypeLegacy ==
    <<84, 121, 112, 101, 32, 91, 50, 50, 93, 59, 32, 91, 66, 111, 115, 116, 111, 110, 93>>

\* type [ 3 ]; [ hi ]
P_TypeSpaced ==
    <<116, 121, 112, 101, 32, 91, 32, 51, 32, 93, 59, 32, 91, 32, 104, 105, 32, 93>>

\* Type [3]; [a]b]
P_TypeBracket ==
    <<84, 121, 112, 101, 32, 91, 51, 93, 59, 32, 91, 97, 93, 98, 93>>

\* Type [3]; [a\nb]
P_TypeNewline ==
    <<84, 121, 112, 101, 32, 91, 51, 93, 59, 32, 91, 97, 10, 98, 93>>

\* Type [3]; []
P_TypeEmpty ==
    <<84, 121, 112, 101, 32, 91, 51, 93, 59, 32, 91, 93>>

\* Scroll [down]
P_ScrollDown ==
    <<83, 99, 114, 111, 108, 108, 32, 91, 100, 111, 119, 110, 93>>

\* Scroll [up]
P_ScrollUp ==
    <<83, 99, 114, 111, 108, 108, 32, 91, 117, 112, 93>>

\* Scroll [WINDOW]; [down]
P_ScrollWindow ==
    <<83, 99, 114, 111, 108, 108, 32, 91, 87, 73, 78, 68, 79, 87, 93, 59, 32, 91, 100, 111, 119, 110, 93>>

\* scroll [ 5 ]; [UP]
P_ScrollElement ==
    <<115, 99, 114, 111, 108, 108, 32, 91, 32, 53, 32, 93, 59, 32, 91, 85, 80, 93>>

\* Scroll [WINDOW]; [ down ]
P_ScrollSpacedDir ==
    <<83, 99, 114, 111, 108, 108, 32, 91, 87, 73, 78, 68, 79, 87, 93, 59, 32, 91, 32, 100, 111, 119, 110, 32, 93>>

\* Scroll [WINDOW]; [left]
P_ScrollLeft ==
    <<83, 99, 114, 111, 108, 108, 32, 91, 87, 73, 78, 68, 79, 87, 93, 59, 32, 91, 108, 101, 102, 116, 93>>

\* Wait
P_Wait ==
    <<87, 97, 105, 116>>

\* GoBack
P_GoBack ==
    <<71, 111, 66, 97, 99, 107>>

\* google
P_Google ==
    <<103, 111, 111, 103, 108, 101>>

\* Frobnicate
P_Frobnicate ==
    <<70, 114, 111, 98, 110, 105, 99, 97, 116, 101>>

\* (the empty string)
P_Empty ==
    <<>>

\*  \n
P_Blank ==
    <<32, 10>>

\* ANSWER [06516]
P_Answer06516 ==
    <<65, 78, 83, 87, 69, 82, 32, 91, 48, 54, 53, 49, 54, 93>>

\* ANSWER; [06516]
P_AnswerLegacy ==
    <<65, 78, 83, 87, 69, 82, 59, 32, 91, 48, 54, 53, 49, 54, 93>>

\* ANSWER; [ ]
P_AnswerBlank ==
    <<65, 78, 83, 87, 69, 82, 59, 32, 91, 32, 93>>

\* answer;[]
P_AnswerEmpty ==
    <<97, 110, 115, 119, 101, 114, 59, 91, 93>>

\* Answer ; [ x ]
P_AnswerSpaced ==
    <<65, 110, 115, 119, 101, 114, 32, 59, 32, 91, 32, 120, 32, 93>>

\* {"action_key": "click", "element": 3}
P_JClick ==
    <<123, 34, 97, 99, 116, 105, 111, 110, 95, 107, 101, 121, 34, 58, 32, 34, 99, 108, 105, 99, 107, 34, 44, 32, 34, 101, 108, 101, 109, 101, 110, 116, 34, 58, 32, 51, 125>>

\* {"Action": "Click", "idx": "4"}
P_JClickAlias ==
    <<123, 34, 65, 99, 116, 105, 111, 110, 34, 58, 32, 34, 67, 108, 105, 99, 107, 34, 44, 32, 34, 105, 100, 120, 34, 58, 32, 34, 52, 34, 125>>

\* {"action_key":"click"}
P_JClickNoElement ==
    <<123, 34, 97, 99, 116, 105, 111, 110, 95, 107, 101, 121, 34, 58, 34, 99, 108, 105, 99, 107, 34, 125>>

\* {"action_key":"click","element":"-3"}
P_JClickNegative ==
    <<123, 34, 97, 99, 116, 105, 111, 110, 95, 107, 101, 121, 34, 58, 34, 99, 108, 105, 99, 107, 34, 44, 34, 101, 108, 101, 109, 101, 110, 116, 34, 58, 34, 45, 51, 34, 125>>

\* {"action_key":"click","element":"x"}
P_JClickWord ==
    <<123, 34, 97, 99, 116, 105, 111, 110, 95, 107, 101, 121, 34, 58, 34, 99, 108, 105, 99, 107, 34, 44, 34, 101, 108, 101, 109, 101, 110, 116, 34, 58, 34, 120, 34, 125>>

\* {"action_key":"click","element":null}
P_JClickNull ==
    <<123, 34, 97, 99, 116, 105, 111, 110, 95, 107, 101, 121, 34, 58, 34, 99, 108, 105, 99, 107, 34, 44, 34, 101, 108, 101, 109, 101, 110, 116, 34, 58, 110, 117, 108, 108, 125>>

\* {"action_key":"click","element":7,"extra":"z"}
P_JClickExtra ==
    <<123, 34, 97, 99, 116, 105, 111, 110, 95, 107, 101, 121, 34, 58, 34, 99, 108, 105, 99, 107, 34, 44, 34, 101, 108, 101, 109, 101, 110, 116, 34, 58, 55, 44, 34, 101, 120, 116, 114, 97, 34, 58, 34, 122, 34, 125>>

\* {"ACTION_KEY":"wait","action_key":"click","number":1,"element":2}
P_JClickDup ==
    <<123, 34, 65, 67, 84, 73, 79, 78, 95, 75, 69, 89, 34, 58, 34, 119, 97, 105, 116, 34, 44, 34, 97, 99, 116, 105, 111, 110, 95, 107, 101, 121, 34, 58, 34, 99, 108, 105, 99, 107, 34, 44, 34, 110, 117, 109, 98, 101, 114, 34, 58, 49, 44, 34, 101, 108, 101, 109, 101, 110, 116, 34, 58, 50, 125>>

\* {"action_key": "click", "element": 3} done
P_JClickProse ==
    <<123, 34, 97, 99, 116, 105, 111, 110, 95, 107, 101, 121, 34, 58, 32, 34, 99, 108, 105, 99, 107, 34, 44, 32, 34, 101, 108, 101, 109, 101, 110, 116, 34, 58, 32, 51, 125, 32, 100, 111, 110, 101>>

\* {"action_key":"type","element":2,"content":"hi"}
P_JType ==
    <<123, 34, 97, 99, 116, 105, 111, 110, 95, 107, 101, 121, 34, 58, 34, 116, 121, 112, 101, 34, 44, 34, 101, 108, 101, 109, 101, 110, 116, 34, 58, 50, 44, 34, 99, 111, 110, 116, 101, 110, 116, 34, 58, 34, 104, 105, 34, 125>>

\* {"action_key":"type","element":"+1_0"}
P_JTypeNoContent ==
    <<123, 34, 97, 99, 116, 105, 111, 110, 95, 107, 101, 121, 34, 58, 34, 116, 121, 112, 101, 34, 44, 34, 101, 108, 101, 109, 101, 110, 116, 34, 58, 34, 43, 49, 95, 48, 34, 125>>

\* {"action":"type","number":0,"content":-15}
P_JTypeIntContent ==
    <<123, 34, 97, 99, 116, 105, 111, 110, 34, 58, 34, 116, 121, 112, 101, 34, 44, 34, 110, 117, 109, 98, 101, 114, 34, 58, 48, 44, 34, 99, 111, 110, 116, 101, 110, 116, 34, 58, 45, 49, 53, 125>>

\* {"action_key":"scroll","element":"WINDOW","direction":"Down"}
P_JScrollWindow ==
    <<123, 34, 97, 99, 116, 105, 111, 110, 95, 107, 101, 121, 34, 58, 34, 115, 99, 114, 111, 108, 108, 34, 44, 34, 101, 108, 101, 109, 101, 110, 116, 34, 58, 34, 87, 73, 78, 68, 79, 87, 34, 44, 34, 100, 105, 114, 101, 99, 116, 105, 111, 110, 34, 58, 34, 68, 111, 119, 110, 34, 125>>

\* {"action_key":"scroll","element":-2,"content":"up"}
P_JScrollNegative ==
    <<123, 34, 97, 99, 116, 105, 111, 110, 95, 107, 101, 121, 34, 58, 34, 115, 99, 114, 111, 108, 108, 34, 44, 34, 101, 108, 101, 109, 101, 110, 116, 34, 58, 45, 50, 44, 34, 99, 111, 110, 116, 101, 110, 116, 34, 58, 34, 117, 112, 34, 125>>

\* {"action_key":"scroll","element":1,"content":"left"}
P_JScrollLeft ==
    <<123, 34, 97, 99, 116, 105, 111, 110, 95, 107, 101, 121, 34, 58, 34, 115, 99, 114, 111, 108, 108, 34, 44, 34, 101, 108, 101, 109, 101, 110, 116, 34, 58, 49, 44, 34, 99, 111, 110, 116, 101, 110, 116, 34, 58, 34, 108, 101, 102, 116, 34, 125>>

\* {"action_key":"scroll","content":"up"}
P_JScrollNoElement ==
    <<123, 34, 97, 99, 116, 105, 111, 110, 95, 107, 101, 121, 34, 58, 34, 115, 99, 114, 111, 108, 108, 34, 44, 34, 99, 111, 110, 116, 101, 110, 116, 34, 58, 34, 117, 112, 34, 125>>

\* {"action_key":"wait"}
P_JWait ==
    <<123, 34, 97, 99, 116, 105, 111, 110, 95, 107, 101, 121, 34, 58, 34, 119, 97, 105, 116, 34, 125>>

\* {'action_key': 'GoBack'}
P_JGoBackQuotes ==
    <<123, 39, 97, 99, 116, 105, 111, 110, 95, 107, 101, 121, 39, 58, 32, 39, 71, 111, 66, 97, 99, 107, 39, 125>>

\* {"action_key":"fly"}
P_JFly ==
    <<123, 34, 97, 99, 116, 105, 111, 110, 95, 107, 101, 121, 34, 58, 34, 102, 108, 121, 34, 125>>

\* {"element":3}
P_JNoKey ==
    <<123, 34, 101, 108, 101, 109, 101, 110, 116, 34, 58, 51, 125>>

\* {"action_key":5}
P_JKeyInt ==
    <<123, 34, 97, 99, 116, 105, 111, 110, 95, 107, 101, 121, 34, 58, 53, 125>>

\* {"action_key":"answer","answer_content":"42"}
P_JAnswer ==
    <<123, 34, 97, 99, 116, 105, 111, 110, 95, 107, 101, 121, 34, 58, 34, 97, 110, 115, 119, 101, 114, 34, 44, 34, 97, 110, 115, 119, 101, 114, 95, 99, 111, 110, 116, 101, 110, 116, 34, 58, 34, 52, 50, 34, 125>>

\* {"action":"ANSWER","answer":" Paris "}
P_JAnswerAlias ==
    <<123, 34, 97, 99, 116, 105, 111, 110, 34, 58, 34, 65, 78, 83, 87, 69, 82, 34, 44, 34, 97, 110, 115, 119, 101, 114, 34, 58, 34, 32, 80, 97, 114, 105, 115, 32, 34, 125>>

\* {"action_key":"answer","answer":" "}
P_JAnswerBlank ==
    <<123, 34, 97, 99, 116, 105, 111, 110, 95, 107, 101, 121, 34, 58, 34, 97, 110, 115, 119, 101, 114, 34, 44, 34, 97, 110, 115, 119, 101, 114, 34, 58, 34, 32, 34, 125>>

\* {"action_key":"answer","answer_content":null}
P_JAnswerNull ==
    <<123, 34, 97, 99, 116, 105, 111, 110, 95, 107, 101, 121, 34, 58, 34, 97, 110, 115, 119, 101, 114, 34, 44, 34, 97, 110, 115, 119, 101, 114, 95, 99, 111, 110, 116, 101, 110, 116, 34, 58, 110, 117, 108, 108, 125>>

\* ```\n{"action_key":"google"}\n```
P_JFenced ==
    <<96, 96, 96, 10, 123, 34, 97, 99, 116, 105, 111, 110, 95, 107, 101, 121, 34, 58, 34, 103, 111, 111, 103, 108, 101, 34, 125, 10, 96, 96, 96>>

\* ```json\n{"action_key":"google"}\n```
P_JFencedTagged ==
    <<96, 96, 96, 106, 115, 111, 110, 10, 123, 34, 97, 99, 116, 105, 111, 110, 95, 107, 101, 121, 34, 58, 34, 103, 111, 111, 103, 108, 101, 34, 125, 10, 96, 96, 96>>

\* ```{"action_key":"wait"}
P_JFenceOpen ==
    <<96, 96, 96, 123, 34, 97, 99, 116, 105, 111, 110, 95, 107, 101, 121, 34, 58, 34, 119, 97, 105, 116, 34, 125>>

\* 8
P_JScalar ==
    <<56>>

\* null
P_JNull ==
    <<110, 117, 108, 108>>

\* {}
P_JEmptyDict ==
    <<123, 125>>

\* {"action_key":"click","element":3
P_JBroken ==
    <<123, 34, 97, 99, 116, 105, 111, 110, 95, 107, 101, 121, 34, 58, 34, 99, 108, 105, 99, 107, 34, 44, 34, 101, 108, 101, 109, 101, 110, 116, 34, 58, 51>>

\* {"action_key":"wait",}
P_JTrailingComma ==
    <<123, 34, 97, 99, 116, 105, 111, 110, 95, 107, 101, 121, 34, 58, 34, 119, 97, 105, 116, 34, 44, 125>>

\* Click [99...9], with one digit more than int() converts
P_ClickHuge ==
    <<67, 108, 105, 99, 107, 32, 91>>
        \o [k \in 1..(default_max_str_digits + 1) |-> 57] \o <<93>>

\* Click [12]
P_Click12 ==
    <<67, 108, 105, 99, 107, 32, 91, 49, 50, 93>>

\* Click [ 12 ]
P_Click12Inner ==
    <<67, 108, 105, 99, 107, 32, 91, 32, 49, 50, 32, 93>>

\* Type [3]; [hello]
P_Type3Hello ==
    <<84, 121, 112, 101, 32, 91, 51, 93, 59, 32, 91, 104, 101, 108, 108, 111, 93>>

\* Type [ 3 ]; [ hello ]
P_Type3HelloInner ==
    <<84, 121, 112, 101, 32, 91, 32, 51, 32, 93, 59, 32, 91, 32, 104, 101, 108, 108, 111, 32, 93>>

\* Scroll [ WINDOW ]; [ down ]
P_ScrollWindowInner ==
    <<83, 99, 114, 111, 108, 108, 32, 91, 32, 87, 73, 78, 68, 79, 87, 32, 93, 59, 32, 91, 32, 100, 111, 119, 110, 32, 93>>

\* ANSWER; [x]
P_AnswerX ==
    <<65, 78, 83, 87, 69, 82, 59, 32, 91, 120, 93>>

\* ANSWER; [ x ]
P_AnswerXInner ==
    <<65, 78, 83, 87, 69, 82, 59, 32, 91, 32, 120, 32, 93>>

Payloads ==
    {P_Click8, P_Click1, P_Click2, P_ClickSpaced,
     P_ClickUpper, P_ClickNegative, P_ClickWord, P_ClickTrailing,
     P_TypeBoston, P_TypeLegacy, P_TypeSpaced, P_TypeBracket,
     P_TypeNewline, P_TypeEmpty, P_ScrollDown, P_ScrollUp,
     P_ScrollWindow, P_ScrollElement, P_ScrollSpacedDir, P_ScrollLeft,
     P_Wait, P_GoBack, P_Google, P_Frobnicate,
     P_Empty, P_Blank, P_Answer06516, P_AnswerLegacy,
     P_AnswerBlank, P_AnswerEmpty, P_AnswerSpaced, P_JClick,
     P_JClickAlias, P_JClickNoElement, P_JClickNegative, P_JClickWord,
     P_JClickNull, P_JClickExtra, P_JClickDup, P_JClickProse,
     P_JType, P_JTypeNoContent, P_JTypeIntContent, P_JScrollWindow,
     P_JScrollNegative, P_JScrollLeft, P_JScrollNoElement, P_JWait,
     P_JGoBackQuotes, P_JFly, P_JNoKey, P_JKeyInt,
     P_JAnswer, P_JAnswerAlias, P_JAnswerBlank, P_JAnswerNull,
     P_JFenced, P_JFencedTagged, P_JFenceOpen, P_JScalar,
     P_JNull, P_JEmptyDict, P_JBroken, P_JTrailingComma, P_ClickHuge,
     P_Click12, P_Click12Inner, P_Type3Hello, P_Type3HelloInner,
     P_ScrollWindowInner, P_AnswerX, P_AnswerXInner}

\* (no reasoning at all)
R_None ==
    <<>>

\* <think>plan</think>
R_Think ==
    <<60, 116, 104, 105, 110, 107, 62, 112, 108, 97, 110, 60, 47, 116, 104, 105, 110, 107, 62>>

\* <THINK>plan</Think>\n
R_ThinkUpper ==
    <<60, 84, 72, 73, 78, 75, 62, 112, 108, 97, 110, 60, 47, 84, 104, 105, 110, 107, 62, 10>>

\* <think>plan
R_ThinkOpen ==
    <<60, 116, 104, 105, 110, 107, 62, 112, 108, 97, 110>>

\* Thought: plan\n
R_Thought ==
    <<84, 104, 111, 117, 103, 104, 116, 58, 32, 112, 108, 97, 110, 10>>

\* <think>\u4e2d\u6587</think>
R_ThinkChinese ==
    <<60, 116, 104, 105, 110, 107, 62, 20013, 25991, 60, 47, 116, 104, 105, 110, 107, 62>>

\* Thought: \u5305\u542b\u4e2d\u6587\n
R_ThoughtChinese ==
    <<84, 104, 111, 117, 103, 104, 116, 58, 32, 21253, 21547, 20013, 25991, 10>>

Reasonings ==
    {R_None, R_Think, R_ThinkUpper, R_ThinkOpen, R_Thought, R_ThinkChinese, R_ThoughtChinese}

\* <action> ... </action>
W_Tag ==
    <<<<60, 97, 99, 116, 105, 111, 110, 62>>,
      <<60, 47, 97, 99, 116, 105, 111, 110, 62>>>>

\* <ACTION>  ...  </Action>
W_TagUpper ==
    <<<<60, 65, 67, 84, 73, 79, 78, 62, 32>>,
      <<32, 60, 47, 65, 99, 116, 105, 111, 110, 62>>>>

\* Action:  ... 
W_Label ==
    <<<<65, 99, 116, 105, 111, 110, 58, 32>>,
      <<>>>>

\*  ... 
W_Bare ==
    <<<<>>,
      <<>>>>

Wrappers ==
    {W_Tag, W_TagUpper, W_Label, W_Bare}

RawText(r, w, p) == r \o w[1] \o p \o w[2]

RawTexts == {RawText(r, w, p) : r \in Reasonings, w \in Wrappers, p \in Payloads}

\* The texts batches longer than one are made of.
BatchTexts ==
    {RawText(R_Think, W_Tag, P_Click8), RawText(R_None, W_Tag, P_Click8),
     RawText(R_Think, W_Tag, P_Frobnicate), RawText(R_Thought, W_Label, P_Click1),
     RawText(R_ThinkChinese, W_Tag, P_JAnswer), RawText(R_Think, W_Bare, P_Empty),
     RawText(R_Think, W_Tag, P_ClickHuge)}

RECURSIVE SeqsOfLen(_, _)
SeqsOfLen(S, n) ==
    IF n = 0 THEN {<<>>}
    ELSE {Append(b, x) : b \in SeqsOfLen(S, n - 1), x \in S}

Batches ==
    {<<t>> : t \in RawTexts} \cup UNION {SeqsOfLen(BatchTexts, n) : n \in 0..MaxBatch}

----------------------------------------------------------------------------
(* String literals of memory.py, as code points.                           *)

\* Observation omitted for previous steps. See attachment for screenshot.
S_omitted ==
    <<79, 98, 115, 101, 114, 118, 97, 116, 105, 111, 110, 32, 111, 109, 105,
    116, 116, 101, 100, 32, 102, 111, 114, 32, 112, 114, 101, 118, 105, 111,
    117, 115, 32, 115, 116, 101, 112, 115, 46, 32, 83, 101, 101, 32, 97, 116,
    116, 97, 99, 104, 109, 101, 110, 116, 32, 102, 111, 114, 32, 115, 99, 114,
    101, 101, 110, 115, 104, 111, 116, 46>>

\* Observation omitted for previous steps.
S_omitted_mark ==
    <<79, 98, 115, 101, 114, 118, 97, 116, 105, 111, 110, 32, 111, 109, 105,
    116, 116, 101, 100, 32, 102, 111, 114, 32, 112, 114, 101, 118, 105, 111,
    117, 115, 32, 115, 116, 101, 112, 115, 46>>

\* Now solve the following task.
S_task_intro ==
    <<78, 111, 119, 32, 115, 111, 108, 118, 101, 32, 116, 104, 101, 32, 102,
    111, 108, 108, 111, 119, 105, 110, 103, 32, 116, 97, 115, 107, 46>>

\* Screenshot of current viewpoint:
S_screenshot_mark ==
    <<83, 99, 114, 101, 101, 110, 115, 104, 111, 116, 32, 111, 102, 32, 99,
    117, 114, 114, 101, 110, 116, 32, 118, 105, 101, 119, 112, 111, 105, 110,
    116, 58>>

\* See attachment for screenshot.
S_hint ==
    <<83, 101, 101, 32, 97, 116, 116, 97, 99, 104, 109, 101, 110, 116, 32,
    102, 111, 114, 32, 115, 99, 114, 101, 101, 110, 115, 104, 111, 116, 46>>

\* Action: ANSWER
S_answer_mark ==
    <<65, 99, 116, 105, 111, 110, 58, 32, 65, 78, 83, 87, 69, 82>>

\* Action:\nANSWER
S_answer_mark_broken ==
    <<65, 99, 116, 105, 111, 110, 58, 10, 65, 78, 83, 87, 69, 82>>

\* \n\nImportant: You returned an answer in the last step. Let's pause, check the web page, and think again. If you still think the task is finished, double-check your answer, revise it if need, and return a final answer. If not, continue the task.
S_reminder ==
    <<10, 10, 73, 109, 112, 111, 114, 116, 97, 110, 116, 58, 32, 89, 111, 117,
    32, 114, 101, 116, 117, 114, 110, 101, 100, 32, 97, 110, 32, 97, 110, 115,
    119, 101, 114, 32, 105, 110, 32, 116, 104, 101, 32, 108, 97, 115, 116, 32,
    115, 116, 101, 112, 46, 32, 76, 101, 116, 39, 115, 32, 112, 97, 117, 115,
    101, 44, 32, 99, 104, 101, 99, 107, 32, 116, 104, 101, 32, 119, 101, 98,
    32, 112, 97, 103, 101, 44, 32, 97, 110, 100, 32, 116, 104, 105, 110, 107,
    32, 97, 103, 97, 105, 110, 46, 32, 73, 102, 32, 121, 111, 117, 32, 115,
    116, 105, 108, 108, 32, 116, 104, 105, 110, 107, 32, 116, 104, 101, 32,
    116, 97, 115, 107, 32, 105, 115, 32, 102, 105, 110, 105, 115, 104, 101,
    100, 44, 32, 100, 111, 117, 98, 108, 101, 45, 99, 104, 101, 99, 107, 32,
    121, 111, 117, 114, 32, 97, 110, 115, 119, 101, 114, 44, 32, 114, 101,
    118, 105, 115, 101, 32, 105, 116, 32, 105, 102, 32, 110, 101, 101, 100,
    44, 32, 97, 110, 100, 32, 114, 101, 116, 117, 114, 110, 32, 97, 32, 102,
    105, 110, 97, 108, 32, 97, 110, 115, 119, 101, 114, 46, 32, 73, 102, 32,
    110, 111, 116, 44, 32, 99, 111, 110, 116, 105, 110, 117, 101, 32, 116,
    104, 101, 32, 116, 97, 115, 107, 46>>

\* [Observation 
S_obs_open ==
    <<91, 79, 98, 115, 101, 114, 118, 97, 116, 105, 111, 110, 32>>

\* : '
S_obs_mid ==
    <<58, 32, 39>>

\* ', Action 
S_act_open ==
    <<39, 44, 32, 65, 99, 116, 105, 111, 110, 32>>

\* ']
S_line_close ==
    <<39, 93>>

----------------------------------------------------------------------------
(* src/agent_system/memory/memory.py: WebVoyagerMemory.                     *)
(* A stored value is None or a str: None, Some(text).  A record of a log    *)
(* is the dict of one step, a function from its field names to values.     *)

PyNone == None

PyText(s) == Some(s)

\* The truth value of an Optional[str]: None and "" are false.
Truthy(v) == v.some /\ v.val # <<>>

\* rec.get(k, default)
RecGet(rec, k, default) == IF k \in DOMAIN rec THEN rec[k] ELSE default

\* The first position at or after i where lit occurs in text, 0 for none.
FirstAtFrom(text, i, lit) ==
    Let({p \in i..Len(text) : ExactAt(text, p, lit)},
        LAMBDA at : IF at = {} THEN 0 ELSE SetMin(at))

\* text[i:].replace(lit, ""): the occurrences of lit are dropped from left
\* to right, each search starting after the occurrence before it.
RECURSIVE RemoveFrom(_, _, _)
RemoveAt(text, i, lit, p) ==
    IF p = 0 THEN Slice(text, i, Len(text))
    ELSE Slice(text, i, p - 1) \o RemoveFrom(text, p + Len(lit), lit)

RemoveFrom(text, i, lit) ==
    Let(FirstAtFrom(text, i, lit), LAMBDA p : RemoveAt(text, i, lit, p))

\* text.replace('See attachment for screenshot.', '').strip()
CleanHint(text) == Strip(RemoveFrom(text, 1, S_hint))

\* The position re.search finds a literal at: its first occurrence, 0 for none.
FirstAt(text, lit) == FirstAtFrom(text, 1, lit)

TextBlock(text) == [type |-> "text", text |-> text]

ImageBlock(path) == [type |-> "image", path |-> path]

IsImage(block) == block.type = "image"

AssistantMessage(text) == [role |-> "assistant", content |-> <<TextBlock(text)>>]

\* The user message of a record: its user_text and, when it has an
\* image_path, the image.
UserMessage(rec) ==
    [role |-> "user",
     content |-> <<TextBlock(RecGet(rec, "user_text", PyText(<<>>)).val)>>
                 \o (IF Truthy(RecGet(rec, "image_path", PyNone))
                     THEN <<ImageBlock(rec["image_path"].val)>> ELSE <<>>)]

\* The messages of one record: the assistant message when assistant_text is
\* present and not empty, then the user message.
RecordMessages(rec) ==
    (IF Truthy(RecGet(rec, "assistant_text", PyNone))
     THEN <<AssistantMessage(rec["assistant_text"].val)>> ELSE <<>>)
    \o <<UserMessage(rec)>>

\* The messages of the first n records of a log, in order.
RECURSIVE LogMessages(_, _)
LogMessages(log, n) ==
    IF n = 0 THEN <<>> ELSE LogMessages(log, n - 1) \o RecordMessages(log[n])

\* The number of image blocks of a content list, and of the user messages of
\* a message list up to message n.
CountImages(content) == Cardinality({j \in 1..Len(content) : IsImage(content[j])})

RECURSIVE CountUserImages(_, _)
CountUserImages(messages, n) ==
    IF n = 0 THEN 0
    ELSE CountUserImages(messages, n - 1)
         + (IF messages[n].role = "user" THEN CountImages(messages[n].content) ELSE 0)

\* The first pass of _clip_messages_like_env on one text.
RewriteText(text) ==
    IF Contains(text, S_omitted_mark) THEN text
    ELSE IF Contains(text, S_task_intro) /\ FirstAt(text, S_screenshot_mark) > 0
    THEN Slice(text, 1, FirstAt(text, S_screenshot_mark) - 1) \o S_omitted
    ELSE S_omitted

RewriteBlock(block) ==
    IF block.type = "text" THEN TextBlock(RewriteText(block.text)) ELSE block

RewriteMessage(msg) ==
    IF msg.role # "user" THEN msg
    ELSE [role |-> "user",
          content |-> SubSeq([j \in 1..Len(msg.content) |-> RewriteBlock(msg.content[j])],
                             1, Len(msg.content))]

RewriteTexts(messages) ==
    SubSeq([i \in 1..Len(messages) |-> RewriteMessage(messages[i])], 1, Len(messages))

\* content after "del content[k]" and the cleaning of the leading text block.
DeleteImage(content, k) ==
    Let(SubSeq(content, 1, k - 1) \o SubSeq(content, k + 1, Len(content)),
        LAMBDA rest :
            IF rest # <<>> /\ rest[1].type = "text"
            THEN <<TextBlock(CleanHint(rest[1].text))>> \o Tail(rest)
            ELSE rest)

\* The while loop of the second pass on one content list, from position k
\* with to_remove images still to delete: the content and the to_remove left.
RECURSIVE ClipContent(_, _, _)
ClipContent(content, k, to_remove) ==
    IF k > Len(content) \/ to_remove <= 0
    THEN [content |-> content, to_remove |-> to_remove]
    ELSE IF IsImage(content[k])
    THEN ClipContent(DeleteImage(content, k), k, to_remove - 1)
    ELSE ClipContent(content, k + 1, to_remove)

\* The for loop of the second pass from message i on; done holds the
\* messages before i as the loop left them.
RECURSIVE ClipMessages(_, _, _, _)
ClipMessagesAfter(messages, i, done, clipped) ==
    ClipMessages(messages, i + 1,
                 Append(done, [role |-> "user", content |-> clipped.content]),
                 clipped.to_remove)

ClipMessages(messages, i, done, to_remove) ==
    IF i > Len(messages) THEN done
    ELSE IF to_remove <= 0 THEN done \o SubSeq(messages, i, Len(messages))
    ELSE IF messages[i].role # "user"
    THEN ClipMessages(messages, i + 1, Append(done, messages[i]), to_remove)
    ELSE Let(ClipContent(messages[i].content, 1, to_remove),
             LAMBDA clipped : ClipMessagesAfter(messages, i, done, clipped))

clip_messages_like_env(messages, max_images) ==
    Let(RewriteTexts(messages), LAMBDA rewritten :
        Let(CountUserImages(rewritten, Len(rewritten)), LAMBDA img_count :
            IF img_count > max_images
            THEN ClipMessages(rewritten, 1, <<>>, img_count - max_images)
            ELSE rewritten))

\* The index of the last user message, 0 for none (the code's None).
LastUserIdx(messages) ==
    Let({i \in 1..Len(messages) : messages[i].role = "user"},
        LAMBDA users : IF users = {} THEN 0 ELSE SetMax(users))

Max(a, b) == IF a >= b THEN a ELSE b

\* ClipHistory with the whole of max_images left to the history.
ClipHistoryFullBudget(messages, max_images) ==
    IF messages = <<>> THEN messages
    ELSE Let(LastUserIdx(messages), LAMBDA last :
             IF last > 1
             THEN clip_messages_like_env(SubSeq(messages, 1, last - 1), max_images)
                  \o SubSeq(messages, last, Len(messages))
             ELSE clip_messages_like_env(messages, max_images))

\* Lines 272-299: the history before the latest user message is clipped to
\* the images the latest message leaves of max_images; a lone message is
\* clipped as history is.
ClipHistory(messages, max_images) ==
    IF messages = <<>> THEN messages
    ELSE Let(LastUserIdx(messages), LAMBDA last :
             IF last > 1
             THEN clip_messages_like_env(
                      SubSeq(messages, 1, last - 1),
                      Max(0, max_images - CountImages(messages[last].content)))
                  \o SubSeq(messages, last, Len(messages))
             ELSE clip_messages_like_env(messages, max_images))

\* The index of message i - 1 when it is an assistant message, 0 otherwise.
AssistantDirectlyBefore(messages, i) ==
    IF i > 1 /\ messages[i - 1].role = "assistant" THEN i - 1 ELSE 0

\* The index of the nearest assistant message before message i that holds
\* an answer marker, 0 for none: every assistant message is looked at.
AssistantWithAnswerBefore(messages, i) ==
    Let({j \in 1..(i - 1) :
            /\ messages[j].role = "assistant"
            /\ messages[j].content # <<>>
            /\ \/ Contains(messages[j].content[1].text, S_answer_mark)
               \/ Contains(messages[j].content[1].text, S_answer_mark_broken)},
        LAMBDA found : IF found = {} THEN 0 ELSE SetMax(found))

\* The index of the nearest assistant message before message i, 0 for none.
AssistantBefore(messages, i) ==
    Let({j \in 1..(i - 1) : messages[j].role = "assistant"},
        LAMBDA found : IF found = {} THEN 0 ELSE SetMax(found))

\* blocks[0]["text"] if blocks and blocks[0].get("type") == "text" else ""
LeadingText(content) ==
    IF content # <<>> /\ content[1].type = "text" THEN content[1].text ELSE <<>>

HasAnswerMark(text) ==
    Contains(text, S_answer_mark) \/ Contains(text, S_answer_mark_broken)

\* messages[last]["content"][0]["text"] += reminder
AppendReminder(msg) ==
    IF msg.content # <<>> /\ msg.content[1].type = "text"
    THEN [role |-> msg.role,
          content |-> <<TextBlock(msg.content[1].text \o S_reminder)>>
                      \o Tail(msg.content)]
    ELSE msg

\* Lines 301-333: the reminder is appended to the last user message when the
\* nearest assistant message before it holds an answer marker.
DoubleCheck(messages) ==
    Let(LastUserIdx(messages), LAMBDA last :
        IF last = 0 THEN messages
        ELSE Let(AssistantBefore(messages, last), LAMBDA j :
                 IF j > 0 /\ HasAnswerMark(LeadingText(messages[j].content))
                 THEN SubSeq(messages, 1, last - 1) \o <<AppendReminder(messages[last])>>
                      \o SubSeq(messages, last + 1, Len(messages))
                 ELSE messages))

\* The records of a log when only the history_length most recent are taken,
\* as fetch takes them.
HistoryRecordsRecent(log, history_length) ==
    IF history_length = 0 THEN log
    ELSE SubSeq(log, Max(1, Len(log) - history_length + 1), Len(log))

\* history_records = self._data[env_idx]: every record of the log, whatever
\* history_length is.
HistoryRecords(log, history_length) == log

\* The message history of one log.
EnvMessageHistory(log, history_length, max_images) ==
    Let(HistoryRecords(log, history_length), LAMBDA history_records :
        DoubleCheck(ClipHistory(LogMessages(history_records, Len(history_records)),
                                max_images)))

\* f"[Observation {step_num}: '{obs}', Action {step_num}: '{act}']"
PyFormat(v) == IF v.some THEN v.val ELSE S_None

RenderLine(step_num, rec, obs_key, action_key) ==
    S_obs_open \o IntToStr(step_num) \o S_obs_mid
    \o PyFormat(RecGet(rec, obs_key, PyText(<<>>)))
    \o S_act_open \o IntToStr(step_num) \o S_obs_mid
    \o PyFormat(RecGet(rec, action_key, PyText(<<>>))) \o S_line_close

\* "\n".join of the first n lines.
RECURSIVE JoinLines(_, _)
JoinLines(lines, n) ==
    IF n = 0 THEN <<>>
    ELSE IF n = 1 THEN lines[1]
    ELSE JoinLines(lines, n - 1) \o <<10>> \o lines[n]

\* log[-history_length:] as the first index taken (1-based): a slice from
\* -0 is a slice from 0, the whole list.
RecentStart(log, history_length) ==
    IF history_length = 0 THEN 1 ELSE Max(1, Len(log) - history_length + 1)

\* The context and the valid length fetch gives for one log.
EnvFetch(log, history_length, obs_key, action_key) ==
    Let(SubSeq(log, RecentStart(log, history_length), Len(log)), LAMBDA recent :
        Let(Len(log) - Len(recent), LAMBDA start_idx :
            [context |-> JoinLines([j \in 1..Len(recent) |->
                                       RenderLine(start_idx + j, recent[j],
                                                  obs_key, action_key)],
                                   Len(recent)),
             valid_length |-> Len(recent)]))

----------------------------------------------------------------------------
(* Texts of the records stored.                                             *)

\* Now solve the following task. Find x. Screenshot of current viewpoint: [1] a
U_Intro ==
    <<78, 111, 119, 32, 115, 111, 108, 118, 101, 32, 116, 104, 101, 32, 102,
    111, 108, 108, 111, 119, 105, 110, 103, 32, 116, 97, 115, 107, 46, 32, 70,
    105, 110, 100, 32, 120, 46, 32, 83, 99, 114, 101, 101, 110, 115, 104, 111,
    116, 32, 111, 102, 32, 99, 117, 114, 114, 101, 110, 116, 32, 118, 105,
    101, 119, 112, 111, 105, 110, 116, 58, 32, 91, 49, 93, 32, 97>>

\* Page two. See attachment for screenshot. [2] b
U_Obs ==
    <<80, 97, 103, 101, 32, 116, 119, 111, 46, 32, 83, 101, 101, 32, 97, 116,
    116, 97, 99, 104, 109, 101, 110, 116, 32, 102, 111, 114, 32, 115, 99, 114,
    101, 101, 110, 115, 104, 111, 116, 46, 32, 91, 50, 93, 32, 98>>

\* Observation omitted for previous steps. See attachment for screenshot.
U_Old ==
    <<79, 98, 115, 101, 114, 118, 97, 116, 105, 111, 110, 32, 111, 109, 105,
    116, 116, 101, 100, 32, 102, 111, 114, 32, 112, 114, 101, 118, 105, 111,
    117, 115, 32, 115, 116, 101, 112, 115, 46, 32, 83, 101, 101, 32, 97, 116,
    116, 97, 99, 104, 109, 101, 110, 116, 32, 102, 111, 114, 32, 115, 99, 114,
    101, 101, 110, 115, 104, 111, 116, 46>>

\* Thought: go\nAction: Click [1]
A_Click ==
    <<84, 104, 111, 117, 103, 104, 116, 58, 32, 103, 111, 10, 65, 99, 116,
    105, 111, 110, 58, 32, 67, 108, 105, 99, 107, 32, 91, 49, 93>>

\* Thought: done\nAction: ANSWER; [x]
A_Answer ==
    <<84, 104, 111, 117, 103, 104, 116, 58, 32, 100, 111, 110, 101, 10, 65,
    99, 116, 105, 111, 110, 58, 32, 65, 78, 83, 87, 69, 82, 59, 32, 91, 120,
    93>>

\* Action:\nANSWER; [x]
A_AnswerBroken ==
    <<65, 99, 116, 105, 111, 110, 58, 10, 65, 78, 83, 87, 69, 82, 59, 32, 91,
    120, 93>>

\* 1.png
I_1 ==
    <<49, 46, 112, 110, 103>>

\* Click [1]
ACT_Click ==
    <<67, 108, 105, 99, 107, 32, 91, 49, 93>>

\* ANSWER; [x]
ACT_Answer ==
    <<65, 78, 83, 87, 69, 82, 59, 32, 91, 120, 93>>

----------------------------------------------------------------------------
(* The records handed to store().                                           *)

\* list(record.keys()) of the two kinds of record.
K_Full == <<"user_text", "assistant_text", "image_path", "action">>

K_Short == <<"user_text", "action">>

Cell(user_text, assistant_text, image_path, action) ==
    [user_text |-> PyText(user_text), assistant_text |-> assistant_text,
     image_path |-> image_path, action |-> action]

\* The first observation of a task: no assistant text yet.
C_First == Cell(U_Intro, PyNone, PyText(I_1), PyNone)

C_Click == Cell(U_Obs, PyText(A_Click), PyText(I_1), PyText(ACT_Click))

C_Answer == Cell(U_Obs, PyText(A_Answer), PyText(I_1), PyText(ACT_Answer))

\* A step whose model output was the empty string.
C_Silent == Cell(U_Obs, PyText(<<>>), PyText(I_1), PyText(<<>>))

\* A step without a screenshot, its text a placeholder already, its answer
\* marker broken over two lines.
C_NoImage == Cell(U_Old, PyText(A_AnswerBroken), PyNone, PyText(ACT_Answer))

C_Short == [user_text |-> PyText(U_Obs), action |-> PyText(ACT_Click)]

FullCells == {C_First, C_Click, C_Answer, C_Silent, C_NoImage}

\* The value of a cell for instance e: the user_text names the instance.
ForInstance(cell, e) ==
    IF e = 1 THEN cell
    ELSE [cell EXCEPT !.user_text = PyText(@.val \o <<32, 35>> \o IntToStr(e))]

\* A record: its key list and, for each instance, the value of each key
\* (record[k][env_idx] is rows[env_idx][k]); lens[k] is len(record[k]).
RecordOfCell(key_list, cell, n) ==
    [keys |-> key_list, rows |-> [e \in 1..n |-> ForInstance(cell, e)],
     lens |-> [k \in {key_list[i] : i \in 1..Len(key_list)} |-> n]]

\* A record whose action list is one value short of the n instances, and a
\* record whose lists hold one value more than there are instances.
ShortValues(n) ==
    [keys |-> K_Short, rows |-> [e \in 1..n |-> ForInstance(C_Short, e)],
     lens |-> [user_text |-> n, action |-> n - 1]]

LongValues(n) ==
    [keys |-> K_Short, rows |-> [e \in 1..(n + 1) |-> ForInstance(C_Short, e)],
     lens |-> [user_text |-> n + 1, action |-> n + 1]]

RaggedRecords(n) == (IF n >= 1 THEN {ShortValues(n)} ELSE {}) \cup {LongValues(n)}

Records(n) ==
    {RecordOfCell(K_Full, c, n) : c \in FullCells} \cup {RecordOfCell(K_Short, C_Short, n)}
    \cup RaggedRecords(n)

----------------------------------------------------------------------------
(* WebVoyagerMemory as a state machine: data is self._data as the sequence  *)
(* of the list objects it refers to, lists the content of each list object  *)
(* (only the ones data refers to are kept), keys and batch_size the fields  *)
(* of those names.  ret is the outcome of the last call until the caller    *)
(* drops it; first_keys records the key list of the first store() call of   *)
(* the object's lifetime.                                                   *)

Refs == 1..MaxInstances

NoLists == [r \in Refs |-> <<>>]

NoCall == [op |-> "none"]

\* __init__ (_data is None: no method modelled reads it before reset, each
\* loops over range(batch_size) = range(0)).
MemoryConstructed ==
    /\ data = <<>>
    /\ lists = NoLists
    /\ keys = PyNone
    /\ batch_size = 0
    /\ ret = NoCall
    /\ first_keys = PyNone

\* [[] for _ in range(batch_size)] when every list is one list object.
SharedLists(n) == SubSeq([e \in 1..n |-> 1], 1, n)

\* [[] for _ in range(batch_size)]: a new list object for each instance.
FreshLists(n) == SubSeq([e \in 1..n |-> e], 1, n)

\* The log of instance e: self._data[e].
Log(e) == lists[data[e]]

Instances == 1..batch_size

Range(s) == {s[k] : k \in 1..Len(s)}

\* {k: record[k][env_idx] for k in self.keys}
RecordFor(record, key_list, env_idx) ==
    [k \in Range(key_list) |-> record.rows[env_idx][k]]

AppendTo(ls, ref, rec) ==
    Let(ls, LAMBDA before : [before EXCEPT ![ref] = Append(@, rec)])

\* The instances the for loop of store appends to: record[k][env_idx] raises
\* IndexError at the first env_idx that one of the lists does not reach, and
\* the instances before it have their record by then.
StoredInstances(record, key_list, n) ==
    SetMin({n} \cup {record.lens[k] : k \in Range(key_list)})

\* The for loop of store over the first n instances.
RECURSIVE StoreLoop(_, _, _, _, _)
StoreLoop(ls, refs, record, key_list, n) ==
    IF n = 0 THEN ls
    ELSE AppendTo(StoreLoop(ls, refs, record, key_list, n - 1),
                  refs[n], RecordFor(record, key_list, n))

----------------------------------------------------------------------------
(* WebVoyagerMultiProcessEnv                                                *)
(* (agent_system/environments/env_package/webvoyager/envs.py): env_num      *)
(* tasks times group_n copies make num_processes workers, each a Ray actor  *)
(* that holds one environment.  A call on a worker returns a future at      *)
(* once; ray.get gives the values of a list of futures in the order of the  *)
(* list, or raises when one of the calls failed.                            *)

\* The most workers of a configuration (env_num * group_n).
MaxWorkers == 4

\* The most lines of the task file.
MaxTasks == 3

\* The (env_num, group_n) pairs of the configurations.
Configs ==
    {c \in (1..MaxWorkers) \X (1..MaxWorkers) : c[1] * c[2] <= MaxWorkers}

\* __init__: the fields of the name, the workers all alive, no call made.
\* _closed is not set: close reads it with getattr(self, '_closed', False).
MultiProcessEnv(n, g, size) ==
    [env_num       |-> n,
     group_n       |-> g,
     num_processes |-> n * g,
     data_size     |-> size,
     closed        |-> FALSE,
     killed        |-> {},
     pc            |-> "idle",
     batch         |-> <<>>,
     futures       |-> <<>>,
     failing       |-> {},
     completed     |-> <<>>,
     sent          |-> SubSeq([w \in 1..(n * g) |-> <<>>], 1, n * g),
     close_called  |-> FALSE,
     out           |-> NoCall]

MultiProcessEnvConstructed == menv = MultiProcessEnv(1, 1, 1)

\* The workers, in the order of self._workers.
Workers == 1..menv.num_processes

\* No request to any worker.
NothingSent == SubSeq([w \in Workers |-> <<>>], 1, menv.num_processes)

\* The actions a batch is made of: an action of the parser, by its key and
\* its element.
StepAction(key, element) == [action_key |-> key, element |-> element]

\* The batches handed to step: of num_processes actions, of one fewer and
\* of one more; each either an answer at every position or a click of
\* another element at each.
StepBatches ==
    {SubSeq([i \in 1..n |-> StepAction("answer", 0)], 1, n) :
         n \in (menv.num_processes - 1)..(menv.num_processes + 1)}
    \cup
    {SubSeq([i \in 1..n |-> StepAction("click", i)], 1, n) :
         n \in (menv.num_processes - 1)..(menv.num_processes + 1)}

\* WebVoyagerWorker.step: what worker w gives for an action, the tuple of
\* its environment's step.
WorkerStep(w, action) ==
    [obs    |-> [worker |-> w, after |-> action],
     reward |-> IF action.action_key = "answer" THEN 1 ELSE 0,
     done   |-> action.action_key = "answer",
     info   |-> [action_key |-> action.action_key, worker |-> w]]

\* WebVoyagerWorker.reset: what worker w gives for a task index.
WorkerReset(w, idx) ==
    [obs  |-> [worker |-> w, task |-> idx],
     info |-> [task_id |-> idx, worker |-> w]]

\* len(actions) != self.num_processes, when the test is left out.
SizeMismatchNever(acts, n) == FALSE

\* len(actions) != self.num_processes
SizeMismatch(acts, n) == Len(acts) # n

\* zip(self._workers, actions): as many pairs as the shorter of the two.
Zipped(n, acts) == 1..(IF n <= Len(acts) THEN n ELSE Len(acts))

\* The values of the futures in the order the calls completed.
GetAsCompleted(futures, completed) ==
    SubSeq([k \in 1..Len(futures) |-> WorkerStep(completed[k], futures[completed[k]])],
           1, Len(futures))

\* ray.get(futures): the value of each future, in the order of the list.
Get(futures, completed) ==
    SubSeq([k \in 1..Len(futures) |-> WorkerStep(k, futures[k])], 1, Len(futures))

\* The four lists step builds from the results.
StepLists(results) ==
    [obs_list    |-> SubSeq([k \in 1..Len(results) |-> results[k].obs], 1, Len(results)),
     reward_list |-> SubSeq([k \in 1..Len(results) |-> results[k].reward], 1, Len(results)),
     done_list   |-> SubSeq([k \in 1..Len(results) |-> results[k].done], 1, Len(results)),
     info_list   |-> SubSeq([k \in 1..Len(results) |-> results[k].info], 1, Len(results))]

\* The task indices: range(data_size).
TaskIdxs(size) == 0..(size - 1)

\* The draws of rng.choice(task_idxs, size=env_num, replace=False): the
\* sequences of env_num indices, no index twice.  There is none when the
\* file has fewer lines than env_num: choice raises ValueError.
Draws(size, n) ==
    {s \in SeqsOfLen(TaskIdxs(size), n) :
         \A i, j \in 1..n : i # j => s[i] # s[j]}

\* np.tile(idx, group_n): the whole draw, group_n times over.
Tile(idx, g) ==
    SubSeq([k \in 1..(Len(idx) * g) |-> idx[((k - 1) % Len(idx)) + 1]],
           1, Len(idx) * g)

\* np.repeat(idx, group_n): each index group_n times, in the order drawn.
Repeat(idx, g) ==
    SubSeq([k \in 1..(Len(idx) * g) |-> idx[((k - 1) \div g) + 1]],
           1, Len(idx) * g)
----------------------------------------------------------------------------
(* WebVoyagerEnv                                                            *)
(* (agent_system/environments/env_package/webvoyager/webgym.py): one        *)
(* browser driven through selenium.  Every call on the driver either does   *)
(* its work or raises; which, is the browser's.                             *)

\* The most steps of an episode.
MaxTimestep == 2

\* The most elements get_web_element_rect marks on a page.
MaxElements == 1

\* The tasks reset is given, by their web_name: one of WEBARENA_DOMAINS,
\* one that is not, and a task with no web_name.
T_Domain == "shopping"

T_Unknown == "wikipedia"

T_Unnamed == "no web_name"

EnvTasks == {T_Domain, T_Unknown, T_Unnamed}

\* The diagnostics the code writes to self.fail_obs.
F_Login == "WebArena login failed for shopping"

F_NoTask == "not such task."

F_Navigate == "Failed to navigate to the task URL: "

F_SetOfMark == "Driver error when adding set-of-mark."

F_Screenshot == "Screenshot failed due to unresponsive browser."

F_Click == "Click action failed: "

F_Type == "Type action failed: "

F_Scroll == "Scroll action failed: "

F_Generic == "The action you have chosen cannot be executed. Please double-check if you have selected the wrong Numerical Label or Action or Action format. Then provide the revised Thought and Action."

\* web_eles before get_web_element_rect has given a list: the attribute is
\* not there.
NoElements == -1

\* img_path before a screenshot path is set.
NoImage == -1

\* __init__ with an env_config: the driver is None, no task, timestep 0,
\* the three diagnostics empty.  done_seen records that a step of the
\* episode in hand returned done=True; out is the outcome of the last call.
Env(webarena) ==
    [webarena  |-> webarena,
     driver    |-> "none",
     task      |-> "none",
     timestep  |-> 0,
     fail_obs  |-> "",
     pdf_obs   |-> "",
     warn_obs  |-> "",
     img_path  |-> NoImage,
     web_eles  |-> NoElements,
     done_seen |-> FALSE,
     out       |-> NoCall]

EnvConstructed == wenv = Env(TRUE)

\* The actions step is given: the seven keys of the parser, a click, type
\* or scroll with its element.
EnvActions ==
    {[action_key |-> k, element |-> e] :
         k \in {"click", "type", "scroll"}, e \in (-2)..MaxElements}
    \cup {[action_key |-> k] : k \in {"wait", "goback", "google", "answer"}}

\* The call raised: nothing is returned.
EnvRaised(env, op, error) ==
    [env EXCEPT !.out = [op |-> op, raised |-> TRUE, error |-> error]]

\* The {} reset returns for a task it does not know.
EmptyObservation == <<>>

\* get_observation: the mapping of the fields as they are.
get_observation(env) ==
    [image    |-> env.img_path,
     pdf_obs  |-> env.pdf_obs,
     warn_obs |-> env.warn_obs,
     fail_obs |-> env.fail_obs,
     web_name |-> env.task]

\* reset from the else branch on: 'not such task.' with an empty mapping;
\* the print before it reads task['web_name'].
ResetUnknownTask(env, task) ==
    IF task = T_Unnamed
    THEN EnvRaised(env, "reset", "KeyError")
    ELSE [env EXCEPT
             !.fail_obs = F_NoTask,
             !.out = [op |-> "reset", raised |-> FALSE,
                      observation |-> EmptyObservation,
                      info |-> [done |-> TRUE, iteration |-> env.timestep]]]

\* The return of reset: get_observation reads driver.current_url, which
\* raises when the browser does not answer.
ResetReturn(env, done, url_ok) ==
    IF ~url_ok
    THEN EnvRaised(env, "reset", "WebDriverException")
    ELSE [env EXCEPT
             !.out = [op |-> "reset", raised |-> FALSE,
                      observation |-> get_observation(env),
                      info |-> [done |-> done, iteration |-> env.timestep]]]

\* reset after the login: the navigation, the keydown script, the
\* set-of-mark, the screenshot and the accessibility tree.  nav is what the
\* browser does: "ok", or the call that raises.
ResetNavigate(env, nav, rects, shot_ok, url_ok) ==
    IF nav = "get"
    THEN ResetReturn([env EXCEPT !.fail_obs = F_Navigate], TRUE, url_ok)
    ELSE IF nav = "script"
    THEN EnvRaised(env, "reset", "WebDriverException")
    ELSE Let([env EXCEPT
                  !.web_eles = IF rects = NoElements THEN @ ELSE rects,
                  !.img_path = env.timestep,
                  !.fail_obs = IF rects = NoElements THEN F_SetOfMark
                               ELSE IF shot_ok THEN @ ELSE F_Screenshot],
             LAMBDA seen :
                 IF nav = "ac_tree"
                 THEN EnvRaised(seen, "reset", "WebDriverException")
                 ELSE ResetReturn(seen, FALSE, url_ok))

\* reset(task).  start is "ok" or the call that raises before the task is
\* stored (quit of the old driver, the new Chrome); login is what
\* webarena_login returns for success.
reset(env, task, start, login, nav, rects, shot_ok, url_ok) ==
    IF env.driver = "up" /\ start = "quit"
    THEN EnvRaised(env, "reset", "WebDriverException")
    ELSE IF start = "chrome"
    THEN EnvRaised([env EXCEPT !.driver = IF @ = "none" THEN "none" ELSE "quit"],
                   "reset", "WebDriverException")
    ELSE Let([env EXCEPT
                  !.driver = "up", !.task = task, !.timestep = 0,
                  !.fail_obs = "", !.pdf_obs = "", !.warn_obs = "",
                  !.done_seen = FALSE],
             LAMBDA fresh :
                 IF fresh.webarena /\ task = T_Domain
                 THEN IF ~login
                      THEN ResetReturn([fresh EXCEPT !.fail_obs = F_Login], TRUE, url_ok)
                      ELSE ResetNavigate(fresh, nav, rects, shot_ok, url_ok)
                 ELSE ResetUnknownTask(fresh, task))

\* The element of a click, type or scroll is one of self.web_eles: an
\* index of the list, from the front or, when negative, from the back.
ElementThere(env, element) ==
    /\ env.web_eles # NoElements
    /\ element < env.web_eles
    /\ element >= 0 - env.web_eles

\* fail_obs after the action is applied.  act is what the browser does
\* with it: "ok", "window" when the window handle cannot be had, "exec"
\* when the call that applies the action raises.
ActionFailure(env, action, act) ==
    IF env.driver # "up" \/ act = "window" THEN F_Generic
    ELSE IF action.action_key = "click"
    THEN IF ElementThere(env, action.element) /\ act = "ok" THEN "" ELSE F_Click
    ELSE IF action.action_key = "type"
    THEN IF ElementThere(env, action.element) /\ act = "ok" THEN "" ELSE F_Type
    ELSE IF action.action_key = "scroll"
    THEN IF (action.element = -1 \/ ElementThere(env, action.element)) /\ act = "ok"
         THEN "" ELSE F_Scroll
    ELSE IF action.action_key = "wait" THEN ""
    ELSE IF act = "ok" THEN "" ELSE F_Generic

\* done and reward of the action: an answer ends the episode, and its
\* reward is the evaluation's, 0.0 when the evaluation raises.
ActionDone(env, action, act) ==
    env.driver = "up" /\ act # "window" /\ action.action_key = "answer"

ActionReward(env, action, act, score) ==
    IF ActionDone(env, action, act) /\ act = "ok" THEN score ELSE 0

\* step from 'get env info' on.  tail is "ok" or the call that raises:
\* the screenshot, the accessibility tree, current_url.
StepObserve(env, action, reward, done, rects, tail) ==
    IF env.task = "none"
    THEN EnvRaised(env, "step", "AttributeError")
    ELSE Let([env EXCEPT
                  !.web_eles = IF rects = NoElements \/ env.driver # "up" THEN @ ELSE rects,
                  !.img_path = env.timestep],
             LAMBDA seen :
                 IF seen.driver # "up"
                 THEN EnvRaised(seen, "step", "AttributeError")
                 ELSE IF tail # "ok"
                 THEN EnvRaised(seen, "step", "WebDriverException")
                 ELSE [seen EXCEPT
                          !.done_seen = @ \/ done,
                          !.out = [op |-> "step", raised |-> FALSE,
                                   observation |-> get_observation(seen),
                                   reward |-> reward,
                                   done |-> done,
                                   info |-> [iteration |-> seen.timestep,
                                             action_key |-> action.action_key,
                                             reward |-> reward,
                                             done |-> done,
                                             won |-> reward = 1]]])

\* The positions of self.web_eles the action reaches: web_eles[element] of a
\* click, a type or a scroll of an element, a negative element counted from
\* the end of the list as Python counts it.
ActedOn(env, action, act) ==
    IF /\ env.driver = "up"
       /\ act # "window"
       /\ action.action_key \in {"click", "type", "scroll"}
       /\ ~(action.action_key = "scroll" /\ action.element = -1)
       /\ ElementThere(env, action.element)
    THEN {IF action.element < 0 THEN action.element + env.web_eles ELSE action.element}
    ELSE {}

\* The call as the caller has it: what step returned or raised, with the
\* action it was given and the elements the action reached.
StepOutcome(out, action, acted) ==
    [f \in DOMAIN out \cup {"action", "acted"} |->
        IF f = "action" THEN action ELSE IF f = "acted" THEN acted ELSE out[f]]

\* step(action).
step(env, action, act, score, rects, tail) ==
    Let([env EXCEPT !.timestep = @ + 1,
                    !.fail_obs = ActionFailure(env, action, act),
                    !.pdf_obs = "", !.warn_obs = ""],
        LAMBDA applied :
            Let(StepObserve(applied, action,
                            ActionReward(env, action, act, score),
                            ActionDone(env, action, act), rects, tail),
                LAMBDA after :
                    [after EXCEPT !.out = StepOutcome(@, action,
                                                      ActedOn(env, action, act))]))

\* close(): the driver is quit and forgotten; an error of quit is logged.
close(env) == [env EXCEPT !.driver = "none", !.out = [op |-> "close", raised |-> FALSE]]
----------------------------------------------------------------------------
(* The JSONL data loader (inference/data_loader.py): a prompt with role     *)
(* markers on lines of their own is split into messages.                    *)

\* The most lines a prompt is made of.
MaxLines == 3

S_system == <<115, 121, 115, 116, 101, 109>>    \* 'system'

S_user == <<117, 115, 101, 114>>    \* 'user'

S_assistant == <<97, 115, 115, 105, 115, 116, 97, 110, 116>>    \* 'assistant'

\* roles = {"system", "user", "assistant"}
roles == {S_system, S_user, S_assistant}

\* The line boundaries of str.splitlines.
IsLineBreak(c) == c \in {10, 11, 12, 13, 28, 29, 30, 133, 8232, 8233}

BreaksFrom(s, i) == {k \in i..Len(s) : IsLineBreak(s[k])}

\* Where the line after the boundary at k starts: \r\n is one boundary.
AfterBreak(s, k) ==
    IF s[k] = 13 /\ k < Len(s) /\ s[k + 1] = 10 THEN k + 2 ELSE k + 1

\* str.splitlines(): the lines of s from position i on, without their
\* boundaries; no empty line after a boundary that ends the text.
RECURSIVE SplitLinesFrom(_, _)
SplitLinesFrom(s, i) ==
    IF i > Len(s) THEN <<>>
    ELSE IF BreaksFrom(s, i) = {} THEN <<SubSeq(s, i, Len(s))>>
    ELSE <<Slice(s, i, SetMin(BreaksFrom(s, i)) - 1)>>
             \o SplitLinesFrom(s, AfterBreak(s, SetMin(BreaksFrom(s, i))))

splitlines(s) == SplitLinesFrom(s, 1)

Message(role, content) == [role |-> role, content |-> content]

\* _push: the lines joined with "\n" and stripped make a message of the
\* role when anything is left.
Push(buffers, role, content_lines) ==
    Let(Strip(JoinLines(content_lines, Len(content_lines))), LAMBDA content :
        IF content # <<>> THEN Append(buffers, Message(role, content)) ELSE buffers)

\* One pass of the loop over the lines: a role marker closes the message of
\* the role before it, when there is one, and any other line is kept.
ParseLine(st, line) ==
    Let(st, LAMBDA before :
        IF Strip(line) \in roles
        THEN IF before.current_role.some
             THEN [current_role |-> Some(Strip(line)),
                   acc          |-> <<>>,
                   buffers      |-> Push(before.buffers, before.current_role.val, before.acc)]
             ELSE [before EXCEPT !.current_role = Some(Strip(line))]
        ELSE [before EXCEPT !.acc = Append(@, line)])

RECURSIVE ParseLines(_, _)
ParseLines(lines, n) ==
    IF n = 0
    THEN [current_role |-> None, acc |-> <<>>, buffers |-> <<>>]
    ELSE ParseLine(ParseLines(lines, n - 1), lines[n])

\* The messages after the loop.
Finalize(prompt_text, st) ==
    IF st.current_role.some
    THEN Push(st.buffers, st.current_role.val, st.acc)
    ELSE IF Strip(prompt_text) # <<>>
    THEN Append(st.buffers, Message(S_user, Strip(prompt_text)))
    ELSE st.buffers

parse_role_tagged_prompt(prompt_text) ==
    Let(splitlines(prompt_text), LAMBDA lines :
        Let(ParseLines(lines, Len(lines)), LAMBDA st : Finalize(prompt_text, st)))

wrap_prompt_to_messages(prompt_text) ==
    Let(parse_role_tagged_prompt(prompt_text), LAMBDA parsed :
        IF parsed # <<>> THEN parsed ELSE <<Message(S_user, prompt_text)>>)

\* The lines the prompts are made of.
L_system == <<115, 121, 115, 116, 101, 109>>    \* 'system'

L_user == <<117, 115, 101, 114>>    \* 'user'

L_assistant == <<97, 115, 115, 105, 115, 116, 97, 110, 116>>    \* 'assistant'

L_user_padded == <<32, 117, 115, 101, 114, 32>>    \* ' user '

L_hi == <<104, 105>>    \* 'hi'

L_yo == <<121, 111>>    \* 'yo'

L_blank == <<>>    \* ''

L_crlf == <<97, 115, 115, 105, 115, 116, 97, 110, 116, 13, 10, 121, 111>>    \* 'assistant\r\nyo'

PromptLines == {L_system, L_user, L_assistant, L_user_padded, L_hi, L_yo, L_blank, L_crlf}

\* The prompts: up to MaxLines of the lines, joined with "\n".
Prompts ==
    {JoinLines(ls, Len(ls)) : ls \in UNION {SeqsOfLen(PromptLines, n) : n \in 0..MaxLines}}

\* No prompt has been given.
LoaderConstructed == prompt = <<>> /\ tagged = <<>> /\ wrapped = <<>>
----------------------------------------------------------------------------
(* VLLMEngine (inference/vllm_engine.py): a wrapper of a local server       *)
(* process and of its chat endpoint.  The engine holds at most one Popen    *)
(* object in server_process; the processes it has launched live on their    *)
(* own, come up or exit by themselves, and are numbered in launch order.    *)

\* The most server processes one engine launches.
MaxLaunches == 2

\* The most message lists handed to one generate_batch.
MaxRequests == 3

\* A server process: starting, ready (answers on its port), exited (it ended
\* by itself) or terminated (the engine ended it); probed tells whether a
\* GET of /models has been answered with 200 since it was launched.
ServerProcess(state, probed) == [state |-> state, probed |-> probed]

\* No generate_batch is running.
NoBatch == [pc |-> "idle", messages |-> <<>>, state |-> <<>>,
            collected |-> <<>>, results |-> <<>>]

\* __init__: no server process, none launched.
VLLMEngine ==
    [server_process |-> None,
     procs          |-> <<>>,
     batch          |-> NoBatch,
     out            |-> NoCall]

\* What happens while _wait_for_server polls.
WaitOutcomes == {"ready", "exited", "timeout"}

\* _wait_for_server: returns when GET /models gives 200, raises RuntimeError
\* when the process has ended, TimeoutError when the time is up.
wait_for_server(outcome) ==
    CASE outcome = "ready"   -> [proc |-> ServerProcess("ready", TRUE), raised |-> FALSE, error |-> "none"]
      [] outcome = "exited"  -> [proc |-> ServerProcess("exited", FALSE), raised |-> TRUE, error |-> "RuntimeError"]
      [] outcome = "timeout" -> [proc |-> ServerProcess("starting", FALSE), raised |-> TRUE, error |-> "TimeoutError"]

\* start_server from the Popen on: the process object is assigned to
\* server_process before the wait, so an exception of the wait leaves it
\* there.
LaunchAndWait(e, outcome) ==
    Let(wait_for_server(outcome), LAMBDA w :
        [e EXCEPT !.server_process = Some(Len(e.procs) + 1),
                  !.procs = Append(e.procs, w.proc),
                  !.out = [op |-> "start_server", raised |-> w.raised,
                           error |-> w.error, launched |-> TRUE]])

\* start_server: nothing when a process is held; otherwise the launch and
\* the wait.
start_server(e, outcome) ==
    IF e.server_process.some
    THEN [e EXCEPT !.out = [op |-> "start_server", raised |-> FALSE,
                            error |-> "none", launched |-> FALSE]]
    ELSE LaunchAndWait(e, outcome)

\* terminate() and wait(), or kill(): a live process is ended, one that has
\* ended stays as it is.
Terminated(proc) ==
    IF proc.state \in {"starting", "ready"}
    THEN [proc EXCEPT !.state = "terminated"]
    ELSE proc

\* stop_server: nothing when no process is held; otherwise the process is
\* ended and server_process is None again.
stop_server(e) ==
    IF ~e.server_process.some
    THEN [e EXCEPT !.out = [op |-> "stop_server", raised |-> FALSE]]
    ELSE [e EXCEPT !.procs[e.server_process.val] = Terminated(@),
                   !.server_process = None,
                   !.out = [op |-> "stop_server", raised |-> FALSE]]

\* Some process of the engine answers on the port.
ServerUp(e) == \E p \in 1..Len(e.procs) : e.procs[p].state = "ready"

\* What a chat request comes to: a reply with a choice, a reply without
\* choices, or a failure (no answer, or a status other than 200).
RequestOutcomes(e) == IF ServerUp(e) THEN {"ok", "empty", "fail"} ELSE {"fail"}

\* chat: text and reasoning of the first choice of the reply to the
\* messages, or two empty texts when the reply has no choices.
chat(messages, outcome) ==
    IF outcome = "ok"
    THEN [text |-> <<"content", messages>>, reasoning |-> <<"reasoning_content", messages>>]
    ELSE [text |-> <<>>, reasoning |-> <<>>]

\* The slot of results a collected future is written to, when it is the
\* place of the future among the collected ones.
ResultSlotByCollection(idx, k) == k

\* results[idx] = out: the slot is the index the task was submitted with.
ResultSlot(idx, k) == idx

\* The message lists of the inputs: of one user message each, told apart by
\* its content.
BatchInputs(m) == SubSeq([i \in 1..m |-> <<[role |-> "user", content |-> i]>>], 1, m)

\* generate_batch up to the submission: results of None, every task pending.
Submit(messages) ==
    [pc        |-> "running",
     messages  |-> messages,
     state     |-> SubSeq([i \in 1..Len(messages) |-> "pending"], 1, Len(messages)),
     collected |-> <<>>,
     results   |-> SubSeq([i \in 1..Len(messages) |-> None], 1, Len(messages))]

\* The futures as_completed can give next: done and not given yet.
Collectable(batch) ==
    {i \in 1..Len(batch.messages) :
         batch.state[i] # "pending" /\ i \notin Range(batch.collected)}

\* One turn of the loop over as_completed: fut.result() raises what the
\* task raised, otherwise the output goes to its slot.
Collect(batch, idx) ==
    IF batch.state[idx] = "fail"
    THEN [batch EXCEPT !.pc = "failing", !.collected = Append(@, idx)]
    ELSE [batch EXCEPT
              !.collected = Append(@, idx),
              !.results[ResultSlot(idx, Len(batch.collected) + 1)] =
                  Some(chat(batch.messages[idx], batch.state[idx]))]

\* The returned list: each result, and the default output for a None.
Narrow(results) ==
    SubSeq([i \in 1..Len(results) |->
               IF results[i].some THEN results[i].val
               ELSE [text |-> <<>>, reasoning |-> <<>>]],
           1, Len(results))

----------------------------------------------------------------------------
(* main of inference/run_inference.py and iter_steps_from_jsonl of          *)
(* inference/data_loader.py: the steps of a .jsonl file of trajectories     *)
(* are made message lists, generated for in one batch and written out.      *)

\* A line of the data file: blank, text that json.loads rejects, a JSON
\* value that is no object, or an object with its traj_uid and its steps.
BlankLine == [kind |-> "blank"]

GarbageLine == [kind |-> "garbage"]

ArrayLine == [kind |-> "array"]

\* An object whose 'steps' is a list of the items.
Trajectory(uid, items) == [kind |-> "object", traj_uid |-> uid, list |-> TRUE, steps |-> items]

\* An object whose 'steps' is not a list.
TrajectoryWithoutList(uid) == [kind |-> "object", traj_uid |-> uid, list |-> FALSE, steps |-> <<>>]

\* An item of 'steps': a dict with its step id and a str prompt, a dict
\* whose prompt is missing or no str, or an item that is no dict.
StepWithPrompt(id, text) == [dict |-> TRUE, step |-> id, str |-> TRUE, prompt |-> text]

StepWithoutPrompt(id) == [dict |-> TRUE, step |-> id, str |-> FALSE, prompt |-> <<>>]

NotAStep == [dict |-> FALSE, step |-> 0, str |-> FALSE, prompt |-> <<>>]

\* iter_jsonl: the lines that parse to an object, in file order.
iter_jsonl(lines) == SelectSeq(lines, LAMBDA l : l.kind = "object")

\* The records iter_steps_from_jsonl yields for the steps of one object.
StepsOf(obj) ==
    IF ~obj.list THEN <<>>
    ELSE Let(SelectSeq(obj.steps, LAMBDA st : st.dict /\ st.str), LAMBDA sts :
             SubSeq([k \in 1..Len(sts) |->
                        [traj_uid |-> obj.traj_uid,
                         step     |-> sts[k].step,
                         messages |-> wrap_prompt_to_messages(sts[k].prompt)]],
                    1, Len(sts)))

RECURSIVE FlattenSteps(_, _)
FlattenSteps(objs, n) ==
    IF n = 0 THEN <<>> ELSE FlattenSteps(objs, n - 1) \o StepsOf(objs[n])

\* iter_steps_from_jsonl: the records of every object, in file order.
iter_steps_from_jsonl(lines) ==
    Let(iter_jsonl(lines), LAMBDA objs : FlattenSteps(objs, Len(objs)))

\* The data files: none at the path, an empty one, and files of one and two
\* steps, with lines and steps that are skipped.
NoDataFile == [exists |-> FALSE, lines |-> <<>>]

DataFile(lines) == [exists |-> TRUE, lines |-> lines]

DataFiles ==
    {NoDataFile,
     DataFile(<<>>),
     DataFile(<<Trajectory("t1", <<StepWithPrompt(0, L_hi)>>)>>),
     DataFile(<<Trajectory("t1", <<StepWithPrompt(0, L_hi),
                                   StepWithPrompt(1, JoinLines(<<L_user, L_yo>>, 2))>>)>>),
     DataFile(<<BlankLine, GarbageLine, ArrayLine, TrajectoryWithoutList("t0"),
                Trajectory("t2", <<NotAStep, StepWithoutPrompt(0), StepWithPrompt(1, L_yo)>>)>>),
     DataFile(<<Trajectory("t1", <<StepWithPrompt(0, L_hi)>>),
                Trajectory("t2", <<StepWithPrompt(0, L_yo)>>)>>)}

\* main up to the try: the engine is created, nothing is read or written.
Main(output_path) ==
    [pc            |-> "created",
     output_path   |-> output_path,
     inputs        |-> <<>>,
     meta          |-> <<>>,
     generated     |-> FALSE,
     out_list      |-> <<>>,
     results_jsonl |-> <<>>,
     written       |-> None,
     error         |-> "none"]

\* An exception leaves the try block: the finally clause is next.
Raises(r, error) == [r EXCEPT !.pc = "finally", !.error = error]

\* The loop over iter_steps_from_jsonl and the print of inputs[0].
Load(r, file) ==
    IF ~file.exists THEN Raises(r, "SystemExit")
    ELSE Let(iter_steps_from_jsonl(file.lines), LAMBDA recs :
             Let([r EXCEPT
                      !.meta = SubSeq([k \in 1..Len(recs) |->
                                          [traj_uid |-> recs[k].traj_uid, step |-> recs[k].step]],
                                      1, Len(recs)),
                      !.inputs = SubSeq([k \in 1..Len(recs) |-> recs[k].messages], 1, Len(recs))],
                 LAMBDA loaded :
                     IF Len(recs) = 0 THEN Raises(loaded, "IndexError")
                     ELSE [loaded EXCEPT !.pc = "generate"]))

\* generate_batch by its outcome: the outputs in input order when every
\* request was answered, the exception of a request otherwise.
Generate(r, state) ==
    IF \E i \in 1..Len(state) : state[i] = "fail"
    THEN Raises(r, "RuntimeError")
    ELSE [r EXCEPT !.pc = "emit",
                   !.generated = TRUE,
                   !.out_list = SubSeq([i \in 1..Len(r.inputs) |-> chat(r.inputs[i], state[i])],
                                       1, Len(r.inputs))]

\* zip(a, b): the pairs, as many as the shorter of the two.
Zip(a, b) ==
    Let(IF Len(a) <= Len(b) THEN Len(a) ELSE Len(b), LAMBDA n :
        SubSeq([k \in 1..n |-> <<a[k], b[k]>>], 1, n))

\* The record made of the names i, input and out of one turn of the loop.
ResultRecord(i, input, out, meta) ==
    [traj_uid       |-> IF i < Len(meta) THEN meta[i + 1].traj_uid ELSE "None",
     step           |-> IF i < Len(meta) THEN Some(meta[i + 1].step) ELSE None,
     response       |-> out.text,
     reasoning      |-> out.reasoning,
     input_messages |-> input]

\* 'for i, input, out in zip(inputs, out_list)': each item of the zip is
\* unpacked into the three names, which raises ValueError for an item that
\* has not three parts; the records of the items before it are in
\* results_jsonl.  The file is written after the loop, when a path is given.
Emit(r) ==
    Let(Zip(r.inputs, r.out_list), LAMBDA items :
        IF \E k \in 1..Len(items) : Len(items[k]) # 3
        THEN Raises(r, "ValueError")
        ELSE Let(SubSeq([k \in 1..Len(items) |->
                            ResultRecord(items[k][1], items[k][2], items[k][3], r.meta)],
                        1, Len(items)),
                 LAMBDA records :
                     [r EXCEPT !.pc = "finally",
                               !.results_jsonl = records,
                               !.written = IF r.output_path THEN Some(records) ELSE None]))

\* An engine as constructed, and a main that has created it.
EngineConstructed == engine = VLLMEngine /\ run = Main(FALSE)
----------------------------------------------------------------------------

(* The caller: one call of webvoyager_projection on a batch, which returns  *)
(* the two lists or raises; the outcome is dropped before the next call.    *)

InitProjection ==
    /\ pc = "idle"
    /\ actions = <<>>
    /\ normalized_actions = <<>>
    /\ valids = <<>>
    /\ MemoryConstructed
    /\ MultiProcessEnvConstructed
    /\ EnvConstructed
    /\ LoaderConstructed
    /\ EngineConstructed

Project ==
    /\ pc = "idle"
    /\ \E batch \in Batches :
          \E out \in {webvoyager_projection(batch)} :
              /\ actions' = batch
              /\ normalized_actions' = IF out.raised THEN <<>> ELSE out.normalized_actions
              /\ valids' = IF out.raised THEN <<>> ELSE out.valids
              /\ pc' = IF out.raised THEN "raised" ELSE "returned"
    /\ UNCHANGED <<menv, wenv, prompt, tagged, wrapped, engine, run,
                   data, lists, keys, batch_size, ret, first_keys>>

Release ==
    /\ pc \in {"returned", "raised"}
    /\ pc' = "idle"
    /\ actions' = <<>>
    /\ normalized_actions' = <<>>
    /\ valids' = <<>>
    /\ UNCHANGED <<menv, wenv, prompt, tagged, wrapped, engine, run,
                   data, lists, keys, batch_size, ret, first_keys>>

NextProjection == Project \/ Release

SpecProjection == InitProjection /\ [][NextProjection]_vars

----------------------------------------------------------------------------
(* The calls made on a WebVoyagerMemory.                                    *)

\* The assertion of store with "every key of self.keys is in the record" in
\* the place of the equality.
KeysMatchSubset(locked, record_keys) == Range(locked) \subseteq Range(record_keys)

\* assert self.keys == list(record.keys())
KeysMatch(locked, record_keys) == locked = record_keys

Reset ==
    /\ ret.op \in {"none", "reset"}
    /\ \E n \in 0..MaxInstances :
          /\ data' = FreshLists(n)
          /\ lists' = NoLists
          /\ batch_size' = n
          /\ keys' = PyNone
          /\ ret' = [op |-> "reset", batch_size |-> n]
    /\ UNCHANGED <<menv, wenv, prompt, tagged, wrapped, engine, run,
                   first_keys, actions, normalized_actions, valids, pc>>

Store ==
    /\ ret.op = "none"
    /\ \A e \in Instances : Len(Log(e)) < MaxSteps
    /\ \E record \in Records(batch_size) :
          \E locked \in {IF keys.some THEN keys.val ELSE record.keys} :
              /\ keys' = PyText(locked)
              /\ first_keys' = IF first_keys.some THEN first_keys ELSE PyText(record.keys)
              /\ IF KeysMatch(locked, record.keys)
                 THEN /\ lists' = StoreLoop(lists, data, record, locked,
                                           StoredInstances(record, locked, batch_size))
                      /\ ret' = [op |-> "store", keys |-> record.keys,
                                 lens |-> record.lens,
                                 raised |-> StoredInstances(record, locked, batch_size)
                                               < batch_size]
                 ELSE /\ lists' = lists
                      /\ ret' = [op |-> "store", keys |-> record.keys,
                                 lens |-> record.lens, raised |-> TRUE]
    /\ UNCHANGED <<menv, wenv, prompt, tagged, wrapped, engine, run,
                   data, batch_size, actions, normalized_actions, valids, pc>>

\* The (history_length, obs_key, action_key) fetch is called with: the keys
\* it has by default with every history_length, and with the longest
\* history_length the observation key of SimpleMemory and an action key in
\* another case, neither a field of the records.
FetchArguments ==
    {<<h, "user_text", "action">> : h \in 0..MaxHistory}
    \cup {<<MaxHistory, "text_obs", "action">>, <<MaxHistory, "user_text", "Action">>}

\* rec.get(action_key, "") and rec.get(obs_key, "") raise for no key.
Fetch ==
    /\ ret.op = "none"
    /\ \E args \in FetchArguments :
          \E out \in {SubSeq([e \in Instances |->
                                 EnvFetch(Log(e), args[1], args[2], args[3])],
                             1, batch_size)} :
              ret' = [op |-> "fetch", history_length |-> args[1],
                      obs_key |-> args[2], action_key |-> args[3], raised |-> FALSE,
                      memory_contexts |-> SubSeq([e \in Instances |-> out[e].context],
                                                 1, batch_size),
                      valid_lengths |-> SubSeq([e \in Instances |-> out[e].valid_length],
                                               1, batch_size)]
    /\ UNCHANGED <<menv, wenv, prompt, tagged, wrapped, engine, run,
                   data, lists, keys, batch_size, first_keys,
                   actions, normalized_actions, valids, pc>>

\* The logs when the text block of a user message is the record's own
\* user_text: what is written to the message is written to the record.
LogsAfterBuildShared(ls, refs, histories) ==
    [r \in DOMAIN ls |->
        IF \E e \in 1..Len(refs) : refs[e] = r
        THEN LET e == CHOOSE e \in 1..Len(refs) : refs[e] = r
                 users == SelectSeq(histories[e], LAMBDA m : m.role = "user")
             IN  SubSeq([p \in 1..Len(ls[r]) |->
                            [ls[r][p] EXCEPT !["user_text"] =
                                PyText(users[p].content[1].text)]],
                        1, Len(ls[r]))
        ELSE ls[r]]

\* The logs after build_message_history has run: it reads the records
\* (rec.get) and writes only to the message dicts it makes.
LogsAfterBuild(ls, refs, histories) == ls

\* The (history_length, max_images) pairs build_message_history is called
\* with: the longest history_length with every max_images, and a
\* history_length of one record with the largest max_images.
BuildArguments ==
    {<<MaxHistory, m>> : m \in 0..MaxImages} \cup {<<1, MaxImages>>}

BuildMessageHistory ==
    /\ ret.op = "none"
    /\ \E args \in BuildArguments :
          \E histories \in {SubSeq([e \in Instances |->
                                       EnvMessageHistory(Log(e), args[1], args[2])],
                                   1, batch_size)} :
              /\ ret' = [op |-> "build", history_length |-> args[1],
                         max_images |-> args[2], histories |-> histories]
              /\ lists' = LogsAfterBuild(lists, data, histories)
    /\ UNCHANGED <<menv, wenv, prompt, tagged, wrapped, engine, run,
                   data, keys, batch_size, first_keys,
                   actions, normalized_actions, valids, pc>>

\* The caller is done with what the call gave.
Drop ==
    /\ ret.op # "none"
    /\ ret' = NoCall
    /\ UNCHANGED <<menv, wenv, prompt, tagged, wrapped, engine, run,
                   data, lists, keys, batch_size, first_keys,
                   actions, normalized_actions, valids, pc>>

InitMemory ==
    /\ MemoryConstructed
    /\ MultiProcessEnvConstructed
    /\ EnvConstructed
    /\ LoaderConstructed
    /\ EngineConstructed
    /\ pc = "idle"
    /\ actions = <<>>
    /\ normalized_actions = <<>>
    /\ valids = <<>>

NextMemory == Reset \/ Store \/ Fetch \/ BuildMessageHistory \/ Drop

SpecMemory == InitMemory /\ [][NextMemory]_vars


----------------------------------------------------------------------------
(* WebVoyagerMultiProcessEnv as a state machine.  menv holds the fields of  *)
(* the object and its workers: closed is _closed, killed the workers        *)
(* ray.kill was called on; while step waits in ray.get, pc is "waiting",    *)
(* futures the action sent to each worker, failing the workers whose call   *)
(* fails and completed the workers whose call is over, in the order they    *)
(* got there.  batch is the argument of the step call, sent the requests    *)
(* the call in hand made of each worker, out its outcome until the caller   *)
(* drops it, and close_called records that close() has been called.         *)

projectionVars == <<actions, normalized_actions, valids, pc>>

memoryVars == <<data, lists, keys, batch_size, ret, first_keys>>

loaderVars == <<prompt, tagged, wrapped>>

envVars == <<wenv>>

engineVars == <<engine, run>>

Request(op, arg) == [op |-> op, arg |-> arg]

CanCall == menv.pc = "idle" /\ menv.out.op = "none"

\* step up to the return of the last worker.step.remote: the size test,
\* then one request to each worker zipped with an action.  The call of a
\* killed actor fails; which of the others fail is the environment's.
StepCall ==
    /\ CanCall
    /\ \E acts \in StepBatches :
          IF SizeMismatch(acts, menv.num_processes)
          THEN menv' = [menv EXCEPT
                   !.batch = acts,
                   !.out = [op |-> "step", raised |-> TRUE, error |-> "ValueError"]]
          ELSE \E failing \in SUBSET Workers :
                   menv' = [menv EXCEPT
                       !.batch = acts,
                       !.pc = "waiting",
                       !.futures = SubSeq(acts, 1, SetMax(Zipped(menv.num_processes, acts) \cup {0})),
                       !.failing = failing \cup menv.killed,
                       !.completed = <<>>,
                       !.sent = SubSeq([w \in Workers |->
                                   IF w \in Zipped(menv.num_processes, acts)
                                   THEN <<Request("step", acts[w])>> ELSE <<>>],
                                   1, menv.num_processes)]
    /\ UNCHANGED <<projectionVars, memoryVars, envVars, loaderVars, engineVars>>

\* The call of worker w is over: the workers run side by side, so the
\* calls end in any order.
WorkerDone ==
    /\ menv.pc = "waiting"
    /\ \E w \in 1..Len(menv.futures) :
          /\ w \notin Range(menv.completed)
          /\ menv' = [menv EXCEPT !.completed = Append(@, w)]
    /\ UNCHANGED <<projectionVars, memoryVars, envVars, loaderVars, engineVars>>

\* ray.get(futures) gives the results once every call is over and none
\* failed; step builds the four lists and returns them.
StepReturn ==
    /\ menv.pc = "waiting"
    /\ Len(menv.completed) = Len(menv.futures)
    /\ Range(menv.completed) \cap menv.failing = {}
    /\ menv' = [menv EXCEPT
           !.pc = "idle",
           !.out = [op |-> "step", raised |-> FALSE,
                    lists |-> StepLists(Get(menv.futures, menv.completed)),
                    completed |-> menv.completed]]
    /\ UNCHANGED <<projectionVars, memoryVars, envVars, loaderVars, engineVars>>

\* ray.get(futures) raises the error of a call that failed, and step with
\* it; nothing is returned.
StepRaise ==
    /\ menv.pc = "waiting"
    /\ Range(menv.completed) \cap menv.failing # {}
    /\ menv' = [menv EXCEPT
           !.pc = "idle",
           !.out = [op |-> "step", raised |-> TRUE, error |-> "RayError"]]
    /\ UNCHANGED <<projectionVars, memoryVars, envVars, loaderVars, engineVars>>

\* reset: the draw, the repeat, one reset request to each worker, and the
\* two lists of ray.get, which raises when a call failed.
ResetAll ==
    /\ CanCall
    /\ IF Draws(menv.data_size, menv.env_num) = {}
       THEN menv' = [menv EXCEPT
                !.out = [op |-> "reset", raised |-> TRUE, error |-> "ValueError",
                         drawn |-> FALSE]]
       ELSE \E idx \in Draws(menv.data_size, menv.env_num) :
            \E failing \in SUBSET Workers :
            \E slots \in {Repeat(idx, menv.group_n)} :
                menv' = [menv EXCEPT
                    !.sent = SubSeq([w \in Workers |->
                                IF w <= Len(slots)
                                THEN <<Request("reset", slots[w])>> ELSE <<>>],
                                1, menv.num_processes),
                    !.out = IF failing \cup menv.killed = {}
                            THEN [op |-> "reset", raised |-> FALSE, drawn |-> TRUE,
                                  idx |-> idx,
                                  obs_list |-> SubSeq([w \in Workers |->
                                      WorkerReset(w, slots[w]).obs], 1, menv.num_processes),
                                  info_list |-> SubSeq([w \in Workers |->
                                      WorkerReset(w, slots[w]).info], 1, menv.num_processes)]
                            ELSE [op |-> "reset", raised |-> TRUE, error |-> "RayError",
                                  drawn |-> TRUE, idx |-> idx]]
    /\ UNCHANGED <<projectionVars, memoryVars, envVars, loaderVars, engineVars>>

\* close: nothing when _closed is set; else one close request to each
\* worker, ray.get on the futures, which raises when a call failed, then
\* ray.kill on each worker and _closed = True.
CloseAll ==
    /\ CanCall
    /\ IF menv.closed
       THEN menv' = [menv EXCEPT
                !.close_called = TRUE,
                !.out = [op |-> "close", raised |-> FALSE]]
       ELSE \E failing \in SUBSET Workers :
                menv' = [menv EXCEPT
                    !.close_called = TRUE,
                    !.sent = SubSeq([w \in Workers |-> <<Request("close", 0)>>],
                                    1, menv.num_processes),
                    !.killed = IF failing \cup menv.killed = {} THEN Workers ELSE @,
                    !.closed = failing \cup menv.killed = {},
                    !.out = IF failing \cup menv.killed = {}
                            THEN [op |-> "close", raised |-> FALSE]
                            ELSE [op |-> "close", raised |-> TRUE, error |-> "RayError"]]
    /\ UNCHANGED <<projectionVars, memoryVars, envVars, loaderVars, engineVars>>

\* The caller is done with the outcome of the call.
DropOutcome ==
    /\ menv.pc = "idle"
    /\ menv.out.op # "none"
    /\ menv' = [menv EXCEPT
           !.out = NoCall,
           !.batch = <<>>,
           !.futures = <<>>,
           !.failing = {},
           !.completed = <<>>,
           !.sent = NothingSent]
    /\ UNCHANGED <<projectionVars, memoryVars, envVars, loaderVars, engineVars>>

InitDispatch ==
    /\ \E c \in Configs : \E size \in 1..MaxTasks :
          menv = MultiProcessEnv(c[1], c[2], size)
    /\ pc = "idle"
    /\ actions = <<>>
    /\ normalized_actions = <<>>
    /\ valids = <<>>
    /\ MemoryConstructed
    /\ EnvConstructed
    /\ LoaderConstructed
    /\ EngineConstructed

NextDispatch ==
    StepCall \/ WorkerDone \/ StepReturn \/ StepRaise \/ ResetAll \/ CloseAll \/ DropOutcome

SpecDispatch == InitDispatch /\ [][NextDispatch]_vars
----------------------------------------------------------------------------
(* WebVoyagerEnv as a state machine: wenv holds the fields of the object.   *)

dispatchVars == <<menv>>

EnvCanCall == wenv.out.op = "none"

EnvReset ==
    /\ EnvCanCall
    /\ \E task \in EnvTasks :
       \E start \in {"ok", "quit", "chrome"} :
       \E login \in BOOLEAN :
       \E nav \in {"ok", "get", "script", "ac_tree"} :
       \E rects \in {NoElements} \cup (0..MaxElements) :
       \E shot_ok \in BOOLEAN :
       \E url_ok \in BOOLEAN :
           wenv' = reset(wenv, task, start, login, nav, rects, shot_ok, url_ok)
    /\ UNCHANGED <<projectionVars, memoryVars, dispatchVars, loaderVars, engineVars>>

EnvStep ==
    /\ EnvCanCall
    /\ wenv.timestep < MaxTimestep
    /\ \E action \in EnvActions :
       \E act \in {"ok", "window", "exec"} :
       \E score \in {0, 1} :
       \E rects \in {NoElements} \cup (0..MaxElements) :
       \E tail \in {"ok", "screenshot", "ac_tree", "current_url"} :
           wenv' = step(wenv, action, act, score, rects, tail)
    /\ UNCHANGED <<projectionVars, memoryVars, dispatchVars, loaderVars, engineVars>>

EnvClose ==
    /\ EnvCanCall
    /\ wenv' = close(wenv)
    /\ UNCHANGED <<projectionVars, memoryVars, dispatchVars, loaderVars, engineVars>>

\* The caller is done with what the call gave.
EnvDrop ==
    /\ wenv.out.op # "none"
    /\ wenv' = [wenv EXCEPT !.out = NoCall]
    /\ UNCHANGED <<projectionVars, memoryVars, dispatchVars, loaderVars, engineVars>>

InitEnv ==
    /\ \E webarena \in BOOLEAN : wenv = Env(webarena)
    /\ pc = "idle"
    /\ actions = <<>>
    /\ normalized_actions = <<>>
    /\ valids = <<>>
    /\ MemoryConstructed
    /\ MultiProcessEnvConstructed
    /\ LoaderConstructed
    /\ EngineConstructed

NextEnv == EnvReset \/ EnvStep \/ EnvClose \/ EnvDrop

SpecEnv == InitEnv /\ [][NextEnv]_vars
----------------------------------------------------------------------------
(* The caller of the loader: wrap_prompt_to_messages on one prompt; tagged  *)
(* is what parse_role_tagged_prompt gave for it and wrapped the messages    *)
(* returned, a list that is never empty; the caller is done with them      *)
(* before the next call.                                                    *)

Wrap ==
    /\ wrapped = <<>>
    /\ \E p \in Prompts :
          /\ prompt' = p
          /\ tagged' = parse_role_tagged_prompt(p)
          /\ wrapped' = wrap_prompt_to_messages(p)
    /\ UNCHANGED <<projectionVars, memoryVars, dispatchVars, envVars, engineVars>>

Forget ==
    /\ wrapped # <<>>
    /\ prompt' = <<>>
    /\ tagged' = <<>>
    /\ wrapped' = <<>>
    /\ UNCHANGED <<projectionVars, memoryVars, dispatchVars, envVars, engineVars>>

InitLoader ==
    /\ LoaderConstructed
    /\ EngineConstructed
    /\ pc = "idle"
    /\ actions = <<>>
    /\ normalized_actions = <<>>
    /\ valids = <<>>
    /\ MemoryConstructed
    /\ MultiProcessEnvConstructed
    /\ EnvConstructed

NextLoader == Wrap \/ Forget

SpecLoader == InitLoader /\ [][NextLoader]_vars
----------------------------------------------------------------------------
(* The properties checked of webvoyager_projection.                         *)

Returned == pc = "returned"

Positions == 1..Len(actions)

ClickOf(k) == [action_key |-> S_click, element |-> k]

TypeOf(n, text) == [action_key |-> S_type, element |-> n, content |-> text]

ScrollOf(n, direction) == [action_key |-> S_scroll, element |-> n, content |-> direction]

AnswerOf(text) == [action_key |-> S_answer, answer_content |-> text]

\* "Boston" and "06516"
T_Boston == <<66, 111, 115, 116, 111, 110>>

T_06516 == <<48, 54, 53, 49, 54>>

\* Well-formed Click commands with the index each names.
WellFormedClicks == {<<P_Click8, 8>>, <<P_Click1, 1>>, <<P_Click2, 2>>}

\* The two ways a raw text carries its action: the tag block and the
\* "Action:" line.
ActionWrappers == {W_Tag, W_Label}

\* Reasoning parts that hold a reasoning block and no CJK ideograph, and the
\* ones that hold a CJK ideograph.
PlainReasonings == {R_Think, R_ThinkUpper, R_Thought}

ChineseReasonings == {R_ThinkChinese, R_ThoughtChinese}

\* C1: a call on any batch of strings returns, without raising, one action
\* and one flag per input, and the pair at position i is the pair the input
\* at position i gets when it is projected alone, whatever the other inputs
\* of the batch are.
C1_OnePairPerInput ==
    /\ pc # "raised"
    /\ Returned =>
          /\ Len(normalized_actions) = Len(actions)
          /\ Len(valids) = Len(actions)
          /\ \A i \in Positions :
                LET alone == webvoyager_projection(<<actions[i]>>)
                IN  /\ normalized_actions[i] = alone.normalized_actions[1]
                    /\ valids[i] = alone.valids[1]

\* C2: a text with a reasoning block, no CJK ideograph and a well-formed
\* Click [k] as its action (tag block or "Action:" line) is projected to
\* click / element k with valid = 1.
C2_ClickIsValid ==
    Returned =>
        \A i \in Positions : \A r \in PlainReasonings : \A w \in ActionWrappers :
            \A c \in WellFormedClicks :
                actions[i] = RawText(r, w, c[1]) =>
                    normalized_actions[i] = ClickOf(c[2]) /\ valids[i] = 1

\* C3: a text with no reasoning block gets valid = 0, and a Click [k] action
\* in it is still returned as click / element k.
C3_NoReasoningKeepsAction ==
    Returned =>
        \A i \in Positions : \A w \in ActionWrappers :
            /\ \A p \in Payloads :
                  actions[i] = RawText(R_None, w, p) => valids[i] = 0
            /\ \A c \in WellFormedClicks :
                  actions[i] = RawText(R_None, w, c[1]) =>
                      normalized_actions[i] = ClickOf(c[2])

\* C4: a text that holds a CJK ideograph gets valid = 0, and a Click [k]
\* action in it is still returned as click / element k.
C4_ChineseKeepsAction ==
    Returned =>
        \A i \in Positions :
            /\ contains_chinese(actions[i]) => valids[i] = 0
            /\ \A r \in ChineseReasonings : \A w \in ActionWrappers :
                  \A c \in WellFormedClicks :
                      actions[i] = RawText(r, w, c[1]) =>
                          normalized_actions[i] = ClickOf(c[2])

\* C5: Type [22] [Boston], given with a reasoning block, is projected to
\* type / element 22 / content "Boston" with valid = 1.
C5_TypeWithoutSemicolon ==
    Returned =>
        \A i \in Positions : \A r \in PlainReasonings : \A w \in ActionWrappers :
            actions[i] = RawText(r, w, P_TypeBoston) =>
                normalized_actions[i] = TypeOf(22, T_Boston) /\ valids[i] = 1

\* C6: Scroll [up] and Scroll [down] are projected to a scroll of the window,
\* element -1, with the direction in lower case.
C6_ScrollShortForm ==
    Returned =>
        \A i \in Positions : \A r \in PlainReasonings : \A w \in ActionWrappers :
            /\ actions[i] = RawText(r, w, P_ScrollDown) =>
                  normalized_actions[i] = ScrollOf(-1, S_down)
            /\ actions[i] = RawText(r, w, P_ScrollUp) =>
                  normalized_actions[i] = ScrollOf(-1, S_up)

\* C7: ANSWER [06516] is projected to answer with answer_content "06516".
C7_AnswerWithoutSemicolon ==
    Returned =>
        \A i \in Positions : \A r \in PlainReasonings : \A w \in ActionWrappers :
            actions[i] = RawText(r, w, P_Answer06516) =>
                normalized_actions[i] = AnswerOf(T_06516)

\* C8: an input in which no payload is found, or whose payload parses in no
\* format, gets exactly the wait action and valid = 0, with or without a
\* reasoning block; "Action: Frobnicate" is such an input.
C8_UnparseableIsInvalidWait ==
    Returned =>
        \A i \in Positions :
            LET payload == extract_action_block(actions[i])
            IN  /\ (payload = <<>> \/ ~ParseAction(payload).some) =>
                      normalized_actions[i] = WaitAction /\ valids[i] = 0
                /\ \A r \in Reasonings : \A w \in ActionWrappers :
                      actions[i] = RawText(r, w, P_Frobnicate) =>
                          normalized_actions[i] = WaitAction /\ valids[i] = 0

\* A payload that is found, with a reasoning block beside it, and parses in
\* no format.
C8_Witness ==
    /\ Returned
    /\ \E i \in Positions :
          /\ actions[i] = RawText(R_Think, W_Tag, P_Frobnicate)
          /\ has_think_block(actions[i])
          /\ extract_action_block(actions[i]) = P_Frobnicate
          /\ normalized_actions[i] = WaitAction
          /\ valids[i] = 0

\* A str: a finite sequence of code points.
IsStr(s) == s \in Seq(Nat)

\* An action that is one of the seven variants with exactly its fields.
WellFormedAction(a) ==
    /\ "action_key" \in DOMAIN a
    /\ a.action_key \in ALLOWED_ACTIONS
    /\ a.action_key = S_click =>
          DOMAIN a = {"action_key", "element"} /\ a.element \in Int
    /\ a.action_key = S_type =>
          /\ DOMAIN a = {"action_key", "element", "content"}
          /\ a.element \in Int
          /\ IsStr(a.content)
    /\ a.action_key = S_scroll =>
          /\ DOMAIN a = {"action_key", "element", "content"}
          /\ a.element \in Int
          /\ a.content \in {S_up, S_down}
    /\ a.action_key \in {S_wait, S_goback, S_google} =>
          DOMAIN a = {"action_key"}
    /\ a.action_key = S_answer =>
          DOMAIN a = {"action_key", "answer_content"} /\ IsStr(a.answer_content)

\* C9: every action returned is one of the seven variants and carries
\* exactly the fields of its variant, of the variant's types.
C9_ActionsWellFormed ==
    Returned => \A i \in Positions : WellFormedAction(normalized_actions[i])

\* A JSON payload with a member no variant has: the click comes back
\* without it.
C9_Witness ==
    /\ Returned
    /\ \E i \in Positions :
          /\ actions[i] = RawText(R_Think, W_Tag, P_JClickExtra)
          /\ normalized_actions[i] = ClickOf(7)

\* C10: an answer action returned has a non-empty answer_content.
C10_AnswerContentNonEmpty ==
    Returned =>
        \A i \in Positions :
            normalized_actions[i].action_key = S_answer =>
                normalized_actions[i].answer_content # <<>>

\* C11: a click or type action returned has an element index of at least 0,
\* and a scroll action returned has an element of at least -1, whether the
\* payload was a command or a key-value object.
C11_ElementIndexInRange ==
    Returned =>
        \A i \in Positions :
            /\ normalized_actions[i].action_key \in {S_click, S_type} =>
                  normalized_actions[i].element >= 0
            /\ normalized_actions[i].action_key = S_scroll =>
                  normalized_actions[i].element >= -1

\* "hi" and "x"
T_hi == <<104, 105>>

T_x == <<120>>

\* The semicolon-delimited commands of the inputs with the action each names.
LegacyCommands ==
    {<<P_TypeLegacy, TypeOf(22, T_Boston)>>, <<P_TypeSpaced, TypeOf(3, T_hi)>>,
     <<P_ScrollWindow, ScrollOf(-1, S_down)>>, <<P_ScrollElement, ScrollOf(5, S_up)>>,
     <<P_AnswerLegacy, AnswerOf(T_06516)>>, <<P_AnswerSpaced, AnswerOf(T_x)>>}

\* The wrappers that make a payload: the <action> block in either case.
PayloadWrappers == {W_Tag, W_TagUpper}

\* C12: the payloads Type [n]; [text], Scroll [WINDOW|n]; [up|down] and
\* ANSWER; [text], with the keyword in any case, are projected to type
\* (element n, content text), scroll (element -1 for WINDOW, n otherwise,
\* content the direction) and answer (answer_content text).
C12_LegacyFormatsParse ==
    Returned =>
        \A i \in Positions : \A r \in Reasonings : \A w \in PayloadWrappers :
            \A c \in LegacyCommands :
                actions[i] = RawText(r, w, c[1]) => normalized_actions[i] = c[2]

\* A legacy command, found in an <action> block beside a reasoning block,
\* has been projected to its action with valid = 1.
C12_Witness ==
    /\ Returned
    /\ \E i \in Positions : \E c \in LegacyCommands :
          /\ c[1] \in {P_TypeSpaced, P_ScrollElement, P_AnswerLegacy}
          /\ actions[i] = RawText(R_Think, W_Tag, c[1])
          /\ extract_action_block(actions[i]) = c[1]
          /\ normalized_actions[i] = c[2]
          /\ valids[i] = 1

\* "hello"
T_hello == <<104, 101, 108, 108, 111>>

\* The fixed-format commands written with a space just inside every bracket,
\* each with the same command written without, and the action the command
\* names.
InnerSpaceCommands ==
    {<<P_Click12Inner, P_Click12, ClickOf(12)>>,
     <<P_Type3HelloInner, P_Type3Hello, TypeOf(3, T_hello)>>,
     <<P_ScrollWindowInner, P_ScrollWindow, ScrollOf(-1, S_down)>>,
     <<P_AnswerXInner, P_AnswerX, AnswerOf(T_x)>>}

\* C31: whitespace just inside any bracket of a fixed-format command is
\* ignored: Click [ 12 ], Type [ 3 ]; [ hello ], Scroll [ WINDOW ]; [ down ]
\* and ANSWER; [ x ] are projected to the action the same command written
\* without the inner spaces is projected to.
C31_InnerWhitespaceIgnored ==
    Returned =>
        \A i \in Positions : \A r \in Reasonings : \A w \in PayloadWrappers :
            \A c \in InnerSpaceCommands :
                /\ actions[i] = RawText(r, w, c[2]) => normalized_actions[i] = c[3]
                /\ actions[i] = RawText(r, w, c[1]) => normalized_actions[i] = c[3]

----------------------------------------------------------------------------
(* The properties checked of WebVoyagerMemory.                              *)

Fetched == ret.op = "fetch"

Built == ret.op = "build"

Min(a, b) == IF a <= b THEN a ELSE b

\* C13: fetch(H) gives each instance, whose log holds k records, min(H, k)
\* lines and valid_length = min(H, k), for every H >= 0; the lines are the
\* ones of steps k - min(H, k) + 1 .. k, in that order, each under its own
\* step number.
C13_FetchRoundTrip ==
    Fetched =>
        /\ Len(ret.memory_contexts) = batch_size
        /\ Len(ret.valid_lengths) = batch_size
        /\ \A e \in Instances :
              LET k == Len(Log(e))
                  n == Min(ret.history_length, k)
              IN  /\ ret.valid_lengths[e] = n
                  /\ ret.memory_contexts[e] =
                        JoinLines([j \in 1..n |->
                                      RenderLine(k - n + j, Log(e)[k - n + j],
                                                 ret.obs_key, ret.action_key)], n)

\* The user messages of a message history, in order: one for each record.
UserMessages(history) == SelectSeq(history, LAMBDA m : m.role = "user")

\* The image blocks of a message history.
ImagesIn(history) == CountUserImages(history, Len(history))

HasImage(msg) == CountImages(msg.content) > 0

\* The record was stored with a screenshot.
StoredWithImage(rec) == Truthy(RecGet(rec, "image_path", PyNone))

\* Of the records stored with an image, the ones whose message has lost it
\* are older than the ones whose message has kept it, and no message has an
\* image its record has not.
OldestImagesRemoved(log, history) ==
    /\ Len(UserMessages(history)) = Len(log)
    /\ \A p \in 1..Len(log) :
          HasImage(UserMessages(history)[p]) =>
              /\ StoredWithImage(log[p])
              /\ \A q \in (p + 1)..Len(log) :
                    StoredWithImage(log[q]) => HasImage(UserMessages(history)[q])

UserText(history, p) == UserMessages(history)[p].content[1].text

\* The texts an earlier user message may show for a record: the placeholder,
\* the part of an intro text before the screenshot marker followed by the
\* placeholder, the stored text when it is a placeholder already; each also
\* without the screenshot hint, as it is left when the image is removed.
OmittedTexts(rec) ==
    LET stored == rec["user_text"].val
        at == FirstAt(stored, S_screenshot_mark)
        shown == {S_omitted}
                 \cup (IF at > 0 THEN {Slice(stored, 1, at - 1) \o S_omitted} ELSE {})
                 \cup (IF Contains(stored, S_omitted_mark) THEN {stored} ELSE {})
    IN  shown \cup {CleanHint(x) : x \in shown}

\* C15: with n >= 1 records, the latest user message shows its stored
\* user_text in full, followed at most by the reminder, and keeps its image;
\* every earlier user message shows the placeholder in the place of its text.
C15_LatestKeptEarlierOmitted ==
    Built =>
        \A e \in Instances :
            LET log == Log(e)
                n == Len(log)
                history == ret.histories[e]
            IN  n >= 1 =>
                    /\ Len(UserMessages(history)) = n
                    /\ UserText(history, n) \in
                          {log[n]["user_text"].val, log[n]["user_text"].val \o S_reminder}
                    /\ StoredWithImage(log[n]) => HasImage(UserMessages(history)[n])
                    /\ \A p \in 1..(n - 1) : UserText(history, p) \in OmittedTexts(log[p])

\* The record was stored with an assistant text that is not empty.
StoredWithAssistant(rec) == Truthy(RecGet(rec, "assistant_text", PyNone))

EndsWith(text, suffix) ==
    /\ Len(suffix) <= Len(text)
    /\ SubSeq(text, Len(text) - Len(suffix) + 1, Len(text)) = suffix

\* The assistant text of a record holds the answer marker, on one line or
\* broken over two.
AnswerTurn(rec) ==
    /\ StoredWithAssistant(rec)
    /\ \/ Contains(rec["assistant_text"].val, S_answer_mark)
       \/ Contains(rec["assistant_text"].val, S_answer_mark_broken)

\* The reminder is at the end of the latest user message, or nowhere in it.
ReminderIff(history, n, due) ==
    IF due THEN EndsWith(UserText(history, n), S_reminder)
    ELSE ~Contains(UserText(history, n), S_reminder)

LastAssistantTurn(log) ==
    LET turns == {p \in 1..Len(log) : StoredWithAssistant(log[p])}
    IN  IF turns = {} THEN 0 ELSE SetMax(turns)

C18_FirstFieldSetForLife ==
    (ret.op = "store" /\ ~ret.raised) => Range(ret.keys) = Range(first_keys.val)

\* C19: reset(batch_size) leaves batch_size logs, all empty, no two of them
\* one list, whatever the store held; a reset(batch_size) right after a
\* reset(batch_size) leaves the store as it was.
C19_ResetGivesEmptyLogs ==
    [][(ret.op \in {"none", "reset"} /\ ret'.op = "reset")
       => (/\ batch_size' = ret'.batch_size
           /\ Len(data') = ret'.batch_size
           /\ \A e \in 1..Len(data') : lists'[data'[e]] = <<>>
           /\ \A e1, e2 \in 1..Len(data') : e1 # e2 => data'[e1] # data'[e2]
           /\ (ret.op = "reset" /\ ret.batch_size = ret'.batch_size)
                 => UNCHANGED <<data, lists, keys, batch_size>>)]_vars

\* A reset to two instances of a store that has been stored to.
C19_Witness ==
    /\ ret.op = "reset"
    /\ first_keys.some
    /\ batch_size = 2
    /\ Len(data) = 2
    /\ data[1] # data[2]
    /\ Log(1) = <<>> /\ Log(2) = <<>>

----------------------------------------------------------------------------
(* The validity flag of webvoyager_projection.                              *)

----------------------------------------------------------------------------
(* The properties checked of WebVoyagerMultiProcessEnv.                     *)

\* A step call is made in this step.
StepCalled == CanCall /\ (menv'.pc = "waiting" \/ menv'.out.op = "step")

\* The requests worker w got in the call in hand.
SentTo(w) == menv.sent[w]

\* The group of worker slot w (slots and groups counted from 1): slot i of
\* the source, counted from 0, is in group floor(i / group_n).
GroupOf(w) == ((w - 1) \div menv.group_n) + 1

\* C21: a step call with a list of another length than num_processes raises
\* the size error and has sent no request to any worker.
C21_SizeMismatchRaisesBeforeDispatch ==
    [][(StepCalled /\ Len(menv'.batch) # menv.num_processes)
       => (/\ menv'.pc = "idle"
           /\ menv'.out.op = "step"
           /\ menv'.out.raised
           /\ menv'.out.error = "ValueError"
           /\ \A w \in Workers : menv'.sent[w] = <<>>)]_vars

\* A list one longer than the workers are, refused with no request sent.
C21_Witness ==
    /\ menv.num_processes >= 2
    /\ Len(menv.batch) = menv.num_processes + 1
    /\ menv.out.op = "step"
    /\ menv.out.raised
    /\ menv.out.error = "ValueError"
    /\ \A w \in Workers : SentTo(w) = <<>>

\* C22: a step that returns gives four lists of num_processes entries, the
\* entries at position i those of worker i's step on actions[i], in whatever
\* order the calls ended, and every call had ended when it returned.
C22_StepResultsInInputOrder ==
    (menv.out.op = "step" /\ ~menv.out.raised) =>
        /\ Len(menv.batch) = menv.num_processes
        /\ Len(menv.out.lists.obs_list) = menv.num_processes
        /\ Len(menv.out.lists.reward_list) = menv.num_processes
        /\ Len(menv.out.lists.done_list) = menv.num_processes
        /\ Len(menv.out.lists.info_list) = menv.num_processes
        /\ \A i \in Workers :
              /\ SentTo(i) = <<Request("step", menv.batch[i])>>
              /\ menv.out.lists.obs_list[i] = WorkerStep(i, menv.batch[i]).obs
              /\ menv.out.lists.reward_list[i] = WorkerStep(i, menv.batch[i]).reward
              /\ menv.out.lists.done_list[i] = WorkerStep(i, menv.batch[i]).done
              /\ menv.out.lists.info_list[i] = WorkerStep(i, menv.batch[i]).info
        /\ Len(menv.out.completed) = menv.num_processes
        /\ Range(menv.out.completed) = Workers

\* A step of three workers or more that returned after the last worker's
\* call ended first and the first worker's last.
C22_Witness ==
    /\ menv.out.op = "step"
    /\ ~menv.out.raised
    /\ menv.num_processes >= 3
    /\ menv.out.completed[1] = menv.num_processes
    /\ menv.out.completed[menv.num_processes] = 1
    /\ menv.batch[2] = StepAction("click", 2)
    /\ menv.out.lists.obs_list[2] = [worker |-> 2, after |-> StepAction("click", 2)]

\* C23: a close() called after close() has been called sends no request to
\* any worker and kills no actor.
C23_SecondCloseIsNoOp ==
    [][(CanCall /\ menv.close_called /\ menv'.out.op = "close")
       => (/\ \A w \in Workers : menv'.sent[w] = <<>>
           /\ menv'.killed = menv.killed)]_vars

\* C24: when the close call of a worker failed in close(), ray.kill has been
\* called on every worker.
C24_KillAfterFailedClose ==
    (menv.out.op = "close" /\ menv.out.raised) => menv.killed = Workers

\* C25: a reset that draws has drawn env_num indices of the task range, no
\* two equal, and has sent each worker one reset request, with the index
\* drawn for the worker's group: two slots have one index exactly when they
\* are of one group.  A reset that cannot draw (fewer tasks than env_num)
\* raises and resets no worker.
C25_ResetDrawsDistinctAndReplicates ==
    menv.out.op = "reset" =>
        IF menv.out.drawn
        THEN /\ Len(menv.out.idx) = menv.env_num
             /\ \A k \in 1..menv.env_num : menv.out.idx[k] \in TaskIdxs(menv.data_size)
             /\ \A j, k \in 1..menv.env_num : j # k => menv.out.idx[j] # menv.out.idx[k]
             /\ \A w \in Workers :
                   SentTo(w) = <<Request("reset", menv.out.idx[GroupOf(w)])>>
             /\ \A v, w \in Workers :
                   (SentTo(v)[1].arg = SentTo(w)[1].arg) <=> (GroupOf(v) = GroupOf(w))
             /\ ~menv.out.raised =>
                   /\ Len(menv.out.obs_list) = menv.num_processes
                   /\ Len(menv.out.info_list) = menv.num_processes
                   /\ \A w \in Workers :
                         /\ menv.out.obs_list[w] =
                                WorkerReset(w, menv.out.idx[GroupOf(w)]).obs
                         /\ menv.out.info_list[w] =
                                WorkerReset(w, menv.out.idx[GroupOf(w)]).info
        ELSE /\ menv.env_num > menv.data_size
             /\ menv.out.raised
             /\ \A w \in Workers : SentTo(w) = <<>>

\* Two tasks, two copies of each: the draw (2, 0) resets slots 0 and 1 with
\* task 2 and slots 2 and 3 with task 0.
C25_Witness ==
    /\ menv.out.op = "reset"
    /\ ~menv.out.raised
    /\ menv.env_num = 2
    /\ menv.group_n = 2
    /\ menv.out.idx = <<2, 0>>
    /\ SentTo(1) = <<Request("reset", 2)>>
    /\ SentTo(2) = <<Request("reset", 2)>>
    /\ SentTo(3) = <<Request("reset", 0)>>
    /\ SentTo(4) = <<Request("reset", 0)>>

----------------------------------------------------------------------------
(* The properties checked of WebVoyagerEnv.                                 *)

\* C26: once a step of the episode has returned done=True, a further step
\* call before the next reset returns nothing: neither done=True again nor
\* done=False.
C26_DoneOnceAndTerminal ==
    [][(EnvCanCall /\ wenv.done_seen /\ wenv'.out.op = "step")
       => wenv'.out.raised]_vars

\* C27: a step call on an environment whose browser is up raises nothing.
C27_StepNeverRaises ==
    (wenv.out.op = "step" /\ wenv.driver = "up") => ~wenv.out.raised

\* C28: a reset that returns info['done'] = True returns an observation
\* mapping with a non-empty fail_obs.
C28_FailedResetCarriesDiagnostic ==
    (wenv.out.op = "reset" /\ ~wenv.out.raised /\ wenv.out.info.done) =>
        /\ "fail_obs" \in DOMAIN wenv.out.observation
        /\ wenv.out.observation.fail_obs # ""

----------------------------------------------------------------------------
(* The properties checked of the data loader.                               *)

\* The lines of the prompt that are role markers, by their number.
MarkerLines(lines) == {k \in 1..Len(lines) : Strip(lines[k]) \in roles}

\* The text before the first role marker, joined and stripped.
Preamble(lines) ==
    Strip(JoinLines(SubSeq(lines, 1, SetMin(MarkerLines(lines)) - 1),
                    SetMin(MarkerLines(lines)) - 1))

\* The roles of the markers, in the order of the lines.
RECURSIVE MarkerRoles(_, _)
MarkerRoles(lines, n) ==
    IF n = 0 THEN <<>>
    ELSE IF Strip(lines[n]) \in roles
    THEN Append(MarkerRoles(lines, n - 1), Strip(lines[n]))
    ELSE MarkerRoles(lines, n - 1)

\* a is b with some entries left out.
RECURSIVE IsSubsequence(_, _)
IsSubsequence(a, b) ==
    IF a = <<>> THEN TRUE
    ELSE IF b = <<>> THEN FALSE
    ELSE IF a[1] = b[1] THEN IsSubsequence(Tail(a), Tail(b))
    ELSE IsSubsequence(a, Tail(b))

RolesOf(messages) == SubSeq([k \in 1..Len(messages) |-> messages[k].role], 1, Len(messages))

\* C29: the messages of a prompt with role markers come in the order of the
\* markers, and text before the first marker is a user message of its own,
\* the first, not part of the system or assistant message after it.
C29_PreambleIsUserContent ==
    LET lines == splitlines(prompt)
    IN  MarkerLines(lines) # {} =>
            /\ Preamble(lines) = <<>> =>
                  IsSubsequence(RolesOf(tagged), MarkerRoles(lines, Len(lines)))
            /\ (/\ Preamble(lines) # <<>>
                /\ Strip(lines[SetMin(MarkerLines(lines))]) \in {S_system, S_assistant}) =>
                  /\ tagged # <<>>
                  /\ tagged[1] = Message(S_user, Preamble(lines))
----------------------------------------------------------------------------
(* Further properties of WebVoyagerMemory.build_message_history and of      *)
(* store and fetch.                                                         *)

\* The records before the latest one that were stored with a screenshot.
OlderWithImage(log) == {p \in 1..(Len(log) - 1) : StoredWithImage(log[p])}

\* The user messages before the latest one that show an image.
OlderKept(history) ==
    {p \in 1..(Len(UserMessages(history)) - 1) : HasImage(UserMessages(history)[p])}

\* The images of the latest user message as it was built from its record.
LatestImages(log) == IF StoredWithImage(log[Len(log)]) THEN 1 ELSE 0

\* C32: the user messages older than the latest one keep
\* min(h, max(0, max_images - L)) image blocks, h the older records with an
\* image path and L the images of the latest user message; the ones kept are
\* the most recent of them, and with max_images <= L none is kept.
C32_HistoryImageBudget ==
    Built =>
        \A e \in Instances :
            Len(Log(e)) >= 1 =>
                LET log == Log(e)
                    kept == OlderKept(ret.histories[e])
                    L == LatestImages(log)
                IN  /\ Len(UserMessages(ret.histories[e])) = Len(log)
                    /\ Cardinality(kept) =
                          Min(Cardinality(OlderWithImage(log)), Max(0, ret.max_images - L))
                    /\ kept \subseteq OlderWithImage(log)
                    /\ \A p \in kept : \A q \in OlderWithImage(log) : q > p => q \in kept
                    /\ ret.max_images <= L => kept = {}

\* Three records with a screenshot each under max_images = 1: the latest
\* message keeps its image, both older ones have lost theirs.
C32_Witness ==
    /\ Built
    /\ ret.max_images = 1
    /\ \E e \in Instances :
          /\ Len(Log(e)) = 3
          /\ \A p \in 1..3 : StoredWithImage(Log(e)[p])
          /\ OlderKept(ret.histories[e]) = {}
          /\ HasImage(UserMessages(ret.histories[e])[3])

\* The number of places of a text where lit begins.
Occurrences(text, lit) == Cardinality({i \in 1..Len(text) : ExactAt(text, i, lit)})

\* C33: a call appends the reminder to the latest user message at most once,
\* and to no other message; the nearest assistant message before the latest
\* user message alone decides: when it holds no answer marker there is no
\* reminder, whatever the assistant messages before it hold.  The same holds
\* of every call made after other calls of build_message_history.
C33_ReminderOnceByNearest ==
    Built =>
        \A e \in Instances :
            LET log == Log(e)
                n == Len(log)
                history == ret.histories[e]
            IN  n >= 1 =>
                    /\ Len(UserMessages(history)) = n
                    /\ Occurrences(UserText(history, n), S_reminder) <= 1
                    /\ \A p \in 1..(n - 1) : ~Contains(UserText(history, p), S_reminder)
                    /\ (/\ LastAssistantTurn(log) > 0
                        /\ ~AnswerTurn(log[LastAssistantTurn(log)]))
                           => ~Contains(UserText(history, n), S_reminder)

\* An answer turn followed by a turn whose assistant text holds no answer
\* marker: the latest user message has no reminder.
C33_Witness ==
    /\ Built
    /\ \E e \in Instances :
          /\ Len(Log(e)) >= 2
          /\ AnswerTurn(Log(e)[Len(Log(e)) - 1])
          /\ StoredWithAssistant(Log(e)[Len(Log(e))])
          /\ ~AnswerTurn(Log(e)[Len(Log(e))])
          /\ ~Contains(UserText(ret.histories[e], Len(Log(e))), S_reminder)

\* The messages n records give, by role and record: for each record in
\* order, an assistant message when the record has an assistant_text that
\* is not empty, then a user message.
RECURSIVE Skeleton(_, _)
Skeleton(log, n) ==
    IF n = 0 THEN <<>>
    ELSE Skeleton(log, n - 1)
         \o (IF StoredWithAssistant(log[n])
             THEN <<[role |-> "assistant", p |-> n]>> ELSE <<>>)
         \o <<[role |-> "user", p |-> n]>>

\* A user message with a leading text block that shows the record's text,
\* in full or as a placeholder; an assistant message with the record's
\* assistant_text.
MessageOfRecord(msg, role, rec) ==
    /\ msg.role = role
    /\ IF role = "assistant"
       THEN msg = AssistantMessage(rec["assistant_text"].val)
       ELSE /\ msg.content # <<>>
            /\ msg.content[1].type = "text"
            /\ \/ msg.content[1].text \in
                      {rec["user_text"].val, rec["user_text"].val \o S_reminder}
               \/ msg.content[1].text \in OmittedTexts(rec)

\* The history has the messages of the skeleton, one for one.
MessagesFollowRecords(log, history) ==
    /\ Len(history) = Len(Skeleton(log, Len(log)))
    /\ \A i \in 1..Len(history) :
          MessageOfRecord(history[i], Skeleton(log, Len(log))[i].role,
                          log[Skeleton(log, Len(log))[i].p])

\* The user messages of a history that follows the skeleton, each with its
\* record.
UserPairs(log, history) ==
    {<<history[i], log[Skeleton(log, Len(log))[i].p]>> :
        i \in {k \in 1..Len(history) : history[k].role = "user"}}

C35_RaggedStoreFails ==
    [][(/\ ret.op = "none"
        /\ ret'.op = "store"
        /\ \E k \in DOMAIN ret'.lens : ret'.lens[k] # batch_size)
       => (ret'.raised /\ lists' = lists /\ data' = data)]_vars

\* The fields of the records of the store: self.keys.
StoredFields == IF keys.some THEN Range(keys.val) ELSE {}

\* C36: a fetch whose obs_key or action_key is not a field of the stored
\* records fails; it renders no line with an empty or default value.
C36_UnknownKeyFetchFails ==
    (/\ Fetched
     /\ \E e \in Instances : Log(e) # <<>>
     /\ \/ ret.obs_key \notin StoredFields
        \/ ret.action_key \notin StoredFields)
        => ret.raised

----------------------------------------------------------------------------
(* A further property of WebVoyagerEnv.step.                                *)

\* The action asks for an element of the page: a click, a type, or a scroll
\* of another element than the window sentinel -1.
TargetsElement(action) ==
    /\ action.action_key \in {"click", "type", "scroll"}
    /\ ~(action.action_key = "scroll" /\ action.element = -1)

\* C37: step reaches an element of the page for a click, a type or a scroll
\* of an element only when 0 <= element < the number of elements of the
\* current element set; for every other index, the negative ones included,
\* it reaches none and fail_obs reports the failure.
C37_ElementIndexBoundsChecked ==
    [][(/\ wenv.out.op = "none"
        /\ wenv'.out.op = "step"
        /\ wenv.driver = "up"
        /\ TargetsElement(wenv'.out.action))
       => (\/ wenv'.out.action.element \in 0..(wenv.web_eles - 1)
           \/ (wenv'.out.acted = {} /\ wenv'.fail_obs # ""))]_vars

----------------------------------------------------------------------------
(* The caller of one VLLMEngine: start_server, stop_server and              *)
(* generate_batch, one call at a time, each outcome dropped before the next *)
(* call.  A generate_batch runs in steps: the requests end in any order,    *)
(* as_completed gives the ended ones one by one, and the call returns or    *)
(* raises at the end.  The server processes come up and exit on their own.  *)

InitEngine ==
    /\ EngineConstructed
    /\ pc = "idle"
    /\ actions = <<>>
    /\ normalized_actions = <<>>
    /\ valids = <<>>
    /\ MemoryConstructed
    /\ MultiProcessEnvConstructed
    /\ EnvConstructed
    /\ LoaderConstructed

EngineIdle == engine.out.op = "none" /\ engine.batch.pc = "idle"

StartServer ==
    /\ EngineIdle
    /\ engine.server_process.some \/ Len(engine.procs) < MaxLaunches
    /\ \E outcome \in WaitOutcomes : engine' = start_server(engine, outcome)
    /\ UNCHANGED <<projectionVars, memoryVars, dispatchVars, envVars, loaderVars, run>>

StopServer ==
    /\ EngineIdle
    /\ engine' = stop_server(engine)
    /\ UNCHANGED <<projectionVars, memoryVars, dispatchVars, envVars, loaderVars, run>>

\* A starting server begins to answer on its port.
ServerComesUp ==
    /\ \E p \in 1..Len(engine.procs) :
          /\ engine.procs[p].state = "starting"
          /\ engine' = [engine EXCEPT !.procs[p].state = "ready"]
    /\ UNCHANGED <<projectionVars, memoryVars, dispatchVars, envVars, loaderVars, run>>

\* A server process ends by itself.
ServerExits ==
    /\ \E p \in 1..Len(engine.procs) :
          /\ engine.procs[p].state \in {"starting", "ready"}
          /\ engine' = [engine EXCEPT !.procs[p].state = "exited"]
    /\ UNCHANGED <<projectionVars, memoryVars, dispatchVars, envVars, loaderVars, run>>

GenerateBatch ==
    /\ EngineIdle
    /\ \E m \in 0..MaxRequests :
          engine' = [engine EXCEPT !.batch = Submit(BatchInputs(m))]
    /\ UNCHANGED <<projectionVars, memoryVars, dispatchVars, envVars, loaderVars, run>>

\* The task of one request ends: chat returned or raised.
TaskDone ==
    /\ engine.batch.pc \in {"running", "failing"}
    /\ \E i \in 1..Len(engine.batch.messages) :
          /\ engine.batch.state[i] = "pending"
          /\ \E outcome \in RequestOutcomes(engine) :
                engine' = [engine EXCEPT !.batch.state[i] = outcome]
    /\ UNCHANGED <<projectionVars, memoryVars, dispatchVars, envVars, loaderVars, run>>

CollectNext ==
    /\ engine.batch.pc = "running"
    /\ \E idx \in Collectable(engine.batch) :
          engine' = [engine EXCEPT !.batch = Collect(engine.batch, idx)]
    /\ UNCHANGED <<projectionVars, memoryVars, dispatchVars, envVars, loaderVars, run>>

\* as_completed has given every future: the narrowed list is returned.
BatchReturn ==
    /\ engine.batch.pc = "running"
    /\ Len(engine.batch.collected) = Len(engine.batch.messages)
    /\ engine' = [engine EXCEPT
                      !.batch = NoBatch,
                      !.out = [op        |-> "generate_batch",
                               raised    |-> FALSE,
                               messages  |-> engine.batch.messages,
                               state     |-> engine.batch.state,
                               collected |-> engine.batch.collected,
                               value     |-> Narrow(engine.batch.results)]]
    /\ UNCHANGED <<projectionVars, memoryVars, dispatchVars, envVars, loaderVars, run>>

\* The exception of a task leaves the loop; the pool waits for the tasks
\* still running and the exception leaves generate_batch.
BatchRaise ==
    /\ engine.batch.pc = "failing"
    /\ \A i \in 1..Len(engine.batch.messages) : engine.batch.state[i] # "pending"
    /\ engine' = [engine EXCEPT
                      !.batch = NoBatch,
                      !.out = [op        |-> "generate_batch",
                               raised    |-> TRUE,
                               messages  |-> engine.batch.messages,
                               state     |-> engine.batch.state,
                               collected |-> engine.batch.collected]]
    /\ UNCHANGED <<projectionVars, memoryVars, dispatchVars, envVars, loaderVars, run>>

EngineDrop ==
    /\ engine.out.op # "none"
    /\ engine' = [engine EXCEPT !.out = NoCall]
    /\ UNCHANGED <<projectionVars, memoryVars, dispatchVars, envVars, loaderVars, run>>

NextEngine ==
    \/ StartServer \/ StopServer \/ ServerComesUp \/ ServerExits
    \/ GenerateBatch \/ TaskDone \/ CollectNext \/ BatchReturn \/ BatchRaise
    \/ EngineDrop

SpecEngine == InitEngine /\ [][NextEngine]_vars

----------------------------------------------------------------------------
(* Properties of VLLMEngine                                                 *)

\* C38: a generate_batch over m message lists that returns gives a list of
\* length m whose position i holds the output of the chat request made for
\* input i, whatever the order in which the requests ended and were given
\* by as_completed.
C38_BatchResultsInInputOrder ==
    (engine.out.op = "generate_batch" /\ ~engine.out.raised)
        => /\ Len(engine.out.value) = Len(engine.out.messages)
           /\ \A i \in 1..Len(engine.out.messages) :
                 engine.out.value[i] = chat(engine.out.messages[i], engine.out.state[i])

\* A batch of three has returned, its outputs collected in an order other
\* than the input order, with replies of both kinds.
C38_Witness ==
    /\ engine.out.op = "generate_batch"
    /\ ~engine.out.raised
    /\ Len(engine.out.messages) = 3
    /\ engine.out.collected = <<3, 1, 2>>
    /\ engine.out.state = <<"ok", "empty", "ok">>

\* C40: when start_server has returned without raising, the engine holds a
\* server process that has answered a readiness probe since it was
\* launched, also when an earlier start_server raised; and the engine never
\* has more than one live process.
C40_ReturnedStartMeansProbed ==
    /\ (engine.out.op = "start_server" /\ ~engine.out.raised)
           => /\ engine.server_process.some
              /\ engine.procs[engine.server_process.val].probed
    /\ Cardinality({p \in 1..Len(engine.procs) :
                       engine.procs[p].state \in {"starting", "ready"}}) <= 1

----------------------------------------------------------------------------
(* One run of main: the server is started, the data file is read, the batch *)
(* is generated, the records are emitted, and the finally clause stops the  *)
(* server.  The server process comes up or exits on its own meanwhile.      *)

InitMain ==
    /\ engine = VLLMEngine
    /\ run \in {Main(output_path) : output_path \in BOOLEAN}
    /\ pc = "idle"
    /\ actions = <<>>
    /\ normalized_actions = <<>>
    /\ valids = <<>>
    /\ MemoryConstructed
    /\ MultiProcessEnvConstructed
    /\ EnvConstructed
    /\ LoaderConstructed

\* engine.start_server(...), the first statement of the try block.
MainStart ==
    /\ run.pc = "created"
    /\ \E outcome \in WaitOutcomes :
          /\ engine' = [start_server(engine, outcome) EXCEPT !.out = NoCall]
          /\ run' = IF start_server(engine, outcome).out.raised
                    THEN Raises(run, start_server(engine, outcome).out.error)
                    ELSE [run EXCEPT !.pc = "load"]
    /\ UNCHANGED <<projectionVars, memoryVars, dispatchVars, envVars, loaderVars>>

MainLoad ==
    /\ run.pc = "load"
    /\ \E file \in DataFiles : run' = Load(run, file)
    /\ UNCHANGED <<projectionVars, memoryVars, dispatchVars, envVars, loaderVars, engine>>

MainGenerate ==
    /\ run.pc = "generate"
    /\ \E state \in SeqsOfLen(RequestOutcomes(engine), Len(run.inputs)) :
          run' = Generate(run, state)
    /\ UNCHANGED <<projectionVars, memoryVars, dispatchVars, envVars, loaderVars, engine>>

MainEmit ==
    /\ run.pc = "emit"
    /\ run' = Emit(run)
    /\ UNCHANGED <<projectionVars, memoryVars, dispatchVars, envVars, loaderVars, engine>>

\* finally: engine.stop_server(); the exception, if any, then leaves main.
MainFinally ==
    /\ run.pc = "finally"
    /\ engine' = [stop_server(engine) EXCEPT !.out = NoCall]
    /\ run' = [run EXCEPT !.pc = "exited"]
    /\ UNCHANGED <<projectionVars, memoryVars, dispatchVars, envVars, loaderVars>>

NextMain ==
    \/ MainStart \/ MainLoad \/ MainGenerate \/ MainEmit \/ MainFinally
    \/ ServerComesUp \/ ServerExits

SpecMain == InitMain /\ [][NextMain]_vars

----------------------------------------------------------------------------
(* A property of main                                                       *)

\* The record the claim has for input i: the ids of the step, the text and
\* the reasoning of its output, and its messages.
RecordOfInput(r, i) ==
    [traj_uid       |-> r.meta[i].traj_uid,
     step           |-> Some(r.meta[i].step),
     response       |-> r.out_list[i].text,
     reasoning      |-> r.out_list[i].reasoning,
     input_messages |-> r.inputs[i]]

\* C39: once main has left, after a generation that returned, there is one
\* result record per input step, in input order, with the traj_uid and the
\* step of the input, the response and the reasoning of its output and its
\* messages; and whenever main has left, the server is stopped.
C39_OneRecordPerInputAndServerStopped ==
    run.pc = "exited"
        => /\ ~engine.server_process.some
           /\ run.generated
                 => /\ Len(run.results_jsonl) = Len(run.inputs)
                    /\ \A i \in 1..Len(run.inputs) :
                          run.results_jsonl[i] = RecordOfInput(run, i)

=============================================================================
